---------------------------- MODULE Spec2Model ----------------------------
(***************************************************************************)
(* Lenia Lab: the simulation core (kernel synthesis, the update shader,   *)
(* the ping-pong field store, brush/stamp editing, density readback).      *)
(*                                                                         *)
(* Numbers.  The program computes in IEEE floating point (float64 in the   *)
(* TypeScript code, float32 in the textures and shaders).  Here a finite   *)
(* number x is the integer round-down of x * Unit; NaN and the infinities  *)
(* are kept as separate values where the TypeScript code can produce them. *)
(* A value below 1/Unit is 0 in the model, as a value below the smallest   *)
(* float32 is 0 in a Float32Array.  The kernel inputs are chosen so that   *)
(* the two agree: every unnormalised weight is either well above 1/Unit or *)
(* dwarfed by another weight of the same kernel, or underflows in float32. *)
(***************************************************************************)
EXTENDS Integers, Sequences, FiniteSets, TLC

\* ------------------------------------------------------------------------
\* Fixed-point resolution: the real number 1.0
Unit == 10000

\* Largest kernel radius tried for generateKernel
MaxRadius == 3

\* Largest number of rings of a kernel specification
MaxRings == 2

\* ------------------------------------------------------------------------
\* JavaScript numbers (renderer.ts 459-506 computes on `number`)

Fin(v) == [t |-> "fin", v |-> v]
NaN == [t |-> "nan", v |-> 0]
Inf(s) == [t |-> "inf", v |-> s]

IsNaN(a) == a.t = "nan"
IsFinite(a) == a.t = "fin"

Abs(i) == IF i < 0 THEN -i ELSE i
Sign(i) == IF i < 0 THEN -1 ELSE IF i > 0 THEN 1 ELSE 0
Min(a, b) == IF a < b THEN a ELSE b
Max(a, b) == IF a > b THEN a ELSE b

\* Largest magnitude a finite model number may have; beyond it the result
\* overflows to an infinity, as a double does beyond 1.8e308.
MaxFinite == 2000000000

\* a + b
FAdd(a, b) ==
  IF IsNaN(a) \/ IsNaN(b) THEN NaN
  ELSE IF a.t = "inf" /\ b.t = "inf" THEN (IF a.v = b.v THEN a ELSE NaN)
  ELSE IF a.t = "inf" THEN a
  ELSE IF b.t = "inf" THEN b
  ELSE Fin(a.v + b.v)

\* -a
FNeg(a) == IF IsNaN(a) THEN NaN ELSE [t |-> a.t, v |-> -a.v]

\* a - b
FSub(a, b) == FAdd(a, FNeg(b))

\* a * b
FMul(a, b) ==
  IF IsNaN(a) \/ IsNaN(b) THEN NaN
  ELSE IF a.t = "inf" \/ b.t = "inf"
    THEN (IF a.v = 0 \/ b.v = 0 THEN NaN ELSE Inf(Sign(a.v) * Sign(b.v)))
  ELSE IF a.v = 0 \/ b.v = 0 THEN Fin(0)
  ELSE IF Abs(a.v) > MaxFinite \div Abs(b.v)
    THEN (IF Abs(a.v) \div Unit > MaxFinite \div Abs(b.v)
            THEN Inf(Sign(a.v) * Sign(b.v))
            ELSE Fin(Sign(a.v) * Sign(b.v) * ((Abs(a.v) \div Unit) * Abs(b.v))))
  ELSE Fin(Sign(a.v) * Sign(b.v) * ((Abs(a.v) * Abs(b.v)) \div Unit))

\* a / b: x/0 is an infinity, 0/0 and inf/inf are NaN
FDiv(a, b) ==
  IF IsNaN(a) \/ IsNaN(b) THEN NaN
  ELSE IF a.t = "inf" THEN (IF b.t = "inf" THEN NaN
                            ELSE Inf(a.v * (IF b.v < 0 THEN -1 ELSE 1)))
  ELSE IF b.t = "inf" THEN Fin(0)
  ELSE IF b.v = 0 THEN (IF a.v = 0 THEN NaN ELSE Inf(Sign(a.v)))
  ELSE IF Abs(a.v) > MaxFinite \div Unit
    THEN Fin(Sign(a.v) * Sign(b.v) * ((Abs(a.v) \div Abs(b.v)) * Unit))
  ELSE Fin(Sign(a.v) * Sign(b.v) * ((Abs(a.v) * Unit) \div Abs(b.v)))

\* a > b (false when either side is NaN)
FGt(a, b) ==
  IF IsNaN(a) \/ IsNaN(b) THEN FALSE
  ELSE IF a.t = "inf" THEN a.v = 1 /\ ~(b.t = "inf" /\ b.v = 1)
  ELSE IF b.t = "inf" THEN b.v = -1
  ELSE a.v > b.v

\* ------------------------------------------------------------------------
\* Math.sqrt and Math.exp on fixed-point integers

RECURSIVE SqrtSearch(_, _, _)
SqrtSearch(n, lo, hi) ==
  IF lo >= hi THEN lo
  ELSE LET mid == (lo + hi + 1) \div 2
       IN IF mid * mid <= n THEN SqrtSearch(n, mid, hi)
          ELSE SqrtSearch(n, lo, mid - 1)

\* floor(sqrt(n)) for 0 <= n < 2^31
ISqrt(n) == SqrtSearch(n, 0, 46340)

\* ln 2
Ln2 == (6931 * Unit) \div 10000

\* x * y for 0 <= x, y <= Unit
UMul(x, y) == (x * y) \div Unit

\* x * y for signed x, y, rounded towards zero
SMul(x, y) == Sign(x) * Sign(y) * ((Abs(x) * Abs(y)) \div Unit)

RECURSIVE Halve(_, _)
Halve(p, n) == IF n = 0 \/ p = 0 THEN p ELSE Halve(p \div 2, n - 1)

\* exp(-z) for z >= 0: exp(-z) = 2^-n * exp(-f), z = n ln2 + f, and the
\* Taylor polynomial of exp(-f) to degree 7 in Horner form
ExpNeg(z) ==
  LET n == z \div Ln2
      f == z % Ln2
      h7 == Unit - f \div 7
      h6 == Unit - UMul(f \div 6, h7)
      h5 == Unit - UMul(f \div 5, h6)
      h4 == Unit - UMul(f \div 4, h5)
      h3 == Unit - UMul(f \div 3, h4)
      h2 == Unit - UMul(f \div 2, h3)
      h1 == Unit - UMul(f, h2)
  IN IF n > 30 THEN 0 ELSE Halve(h1, n)

\* Math.exp(a)
MathExp(a) ==
  IF IsNaN(a) THEN NaN
  ELSE IF a.t = "inf" THEN (IF a.v > 0 THEN a ELSE Fin(0))
  ELSE IF a.v <= 0 THEN Fin(ExpNeg(-a.v))
  ELSE IF ExpNeg(a.v) = 0 THEN Inf(1)
  ELSE Fin((Unit * Unit) \div ExpNeg(a.v))

\* ------------------------------------------------------------------------
\* Kernel generation (renderer.ts 432-506)

\* function bell(x, mu, sigma)
bell(x, mu, sigma) ==
  LET d == FDiv(FSub(x, mu), sigma)
  IN MathExp(FDiv(FMul(FNeg(d), d), Fin(2 * Unit)))

\* Math.sqrt(dx * dx + dy * dy) / R
NormDist(dx, dy, R) ==
  (ISqrt((dx * dx + dy * dy) * ((Unit \div 10) * (Unit \div 10))) * 10) \div R

\* the sum over the peaks of height * bell(r, center, width)
RECURSIVE PeakSum(_, _, _)
PeakSum(params, r, p) ==
  IF p > Len(params.peaks) THEN Fin(0)
  ELSE FAdd(FMul(params.peaks[p],
                 bell(Fin(r), params.peakCenters[p], params.peakWidths[p])),
            PeakSum(params, r, p + 1))

\* the loop body without the r > 1 cut-off
KernelValue_NoCutoff(params, dx, dy) ==
  PeakSum(params, NormDist(dx, dy, params.radius), 1)

\* one cell of the loop body, renderer.ts 477-493
KernelValue(params, dx, dy) ==
  LET r == NormDist(dx, dy, params.radius)
  IN IF r > Unit THEN Fin(0) ELSE PeakSum(params, r, 1)

KernelSize(params) == 2 * params.radius + 1

\* the cell index (dy + R) * size + (dx + R)
KernelIndex(R, dx, dy) == (dy + R) * (2 * R + 1) + (dx + R)

\* the loops of renderer.ts 475-496: the unnormalised kernel
KernelFill(params) ==
  LET R == params.radius
      size == KernelSize(params)
  IN [i \in 0..(size * size - 1) |->
        KernelValue(params, (i % size) - R, (i \div size) - R)]

\* k[lo] + ... + k[hi], halving the range to keep the evaluation shallow
RECURSIVE KernelSumRange(_, _, _)
KernelSumRange(k, lo, hi) ==
  IF lo > hi THEN Fin(0)
  ELSE IF lo = hi THEN k[lo]
  ELSE LET mid == (lo + hi) \div 2
       IN FAdd(KernelSumRange(k, lo, mid), KernelSumRange(k, mid + 1, hi))

\* `sum`, accumulated over every cell (renderer.ts 473, 494)
KernelSum(k, params) ==
  KernelSumRange(k, 0, KernelSize(params) * KernelSize(params) - 1)

\* the kernel returned without the division
KernelNormalize_Skip(k, sum) == k

\* renderer.ts 499-503: divide by the sum when it is positive
KernelNormalize(k, sum) ==
  IF FGt(sum, Fin(0)) THEN [i \in DOMAIN k |-> FDiv(k[i], sum)] ELSE k

\* export function generateKernel(params)
generateKernel(params) ==
  LET k == KernelFill(params)
  IN KernelNormalize(k, KernelSum(k, params))

\* ------------------------------------------------------------------------
\* The kernel specifications tried

Frac(n, d) == (n * Unit) \div d

\* ring centers in [0,1]
RingCenters == {Fin(0), Fin(Frac(1, 2)), Fin(Unit)}

\* valid ring widths (> 0): a preset's 0.15 and a very narrow 0.001
ValidWidths == {Fin(Frac(15, 100)), Fin(Frac(1, 1000))}

\* degenerate ring widths: zero, negative, NaN
DegenerateWidths == {Fin(0), Fin(-Frac(15, 100)), NaN}

\* ring heights (> 0)
RingHeights == {Fin(Unit), Fin(Frac(1, 2))}

\* the preset width takes either height; the narrow and the degenerate
\* widths take height 1
Rings ==
  [c : RingCenters, w : {Fin(Frac(15, 100))}, h : RingHeights]
    \cup [c : RingCenters, w : (ValidWidths \cup DegenerateWidths) \ {Fin(Frac(15, 100))},
           h : {Fin(Unit)}]

RingSeqs == UNION {[1..n -> Rings] : n \in 1..MaxRings}

ParamsOf(R, rs) ==
  [radius |-> R,
   peaks |-> [p \in DOMAIN rs |-> rs[p].h],
   peakCenters |-> [p \in DOMAIN rs |-> rs[p].c],
   peakWidths |-> [p \in DOMAIN rs |-> rs[p].w]]

KernelInputs == {ParamsOf(R, rs) : R \in 1..MaxRadius, rs \in RingSeqs}

\* ------------------------------------------------------------------------
\* Bounds of the renderer model

\* Longest sequence of renderer calls explored
MaxOps == 3

\* Grid widths and heights tried (powers of two, as WebGL 1 requires of a
\* texture with REPEAT wrapping)
GridSizes == {2, 4}

\* ------------------------------------------------------------------------
\* Shaders (shaders.ts).  A field is a function from the cell index
\* y * W + x to the cell's value; the fragment for cell (x, y) has
\* v_uv = ((x + 1/2) / W, (y + 1/2) / H).

Clamp(v, lo, hi) == Max(lo, Min(hi, v))

CellX(i, W) == i % W
CellY(i, W) == i \div W

\* the state sampled without fract, under CLAMP_TO_EDGE
SampleCell_ClampToEdge(x, y, dx, dy, W, H) ==
  Clamp(y + dy, 0, H - 1) * W + Clamp(x + dx, 0, W - 1)

\* texture2D(u_state, fract(v_uv + vec2(dx, dy) * texel)) under REPEAT: the
\* u coordinate in units of 1/(2W) is (2x + 1 + 2dx) mod 2W, a texel centre,
\* where LINEAR filtering returns the texel itself
SampleCell(x, y, dx, dy, W, H) ==
  LET un == (2 * x + 1 + 2 * dx) % (2 * W)
      vn == (2 * y + 1 + 2 * dy) % (2 * H)
  IN (vn \div 2) * W + (un \div 2)

\* texture2D(u_kernel, (vec2(dx, dy) / R + 1) * 0.5).r under LINEAR and
\* CLAMP_TO_EDGE on a (2R+1)^2 texture: the sample point lies |dx|/(2R) of a
\* texel away from the centre of texel dx + R, towards the edge
KernelWeight(ktex, R, dx, dy) ==
  LET size == 2 * R + 1
      tx(i, j) == ktex[Clamp(j, 0, size - 1) * size + Clamp(i, 0, size - 1)].v
      i0 == dx + R
      j0 == dy + R
      i1 == i0 + Sign(dx)
      j1 == j0 + Sign(dy)
      fx == Abs(dx)
      fy == Abs(dy)
      den == 2 * R
  IN ((den - fx) * (den - fy) * tx(i0, j0) + fx * (den - fy) * tx(i1, j0)
      + (den - fx) * fy * tx(i0, j1) + fx * fy * tx(i1, j1)) \div (den * den)

\* 0.001, the weight below which an offset is skipped
WeightEpsilon == Unit \div 1000

\* the convolution loops of UPDATE_SHADER, offsets o..n-1 of the
\* (2R+1)^2 window, as the pair <<potential, kernelSum>> (unscaled products)
RECURSIVE Convolve(_, _, _, _, _, _, _, _, _)
Convolve(src, ktex, R, x, y, W, H, lo, hi) ==
  IF lo > hi THEN <<0, 0>>
  ELSE IF lo = hi THEN
    LET size == 2 * R + 1
        dx == (lo % size) - R
        dy == (lo \div size) - R
        weight == KernelWeight(ktex, R, dx, dy)
    IN IF weight < WeightEpsilon THEN <<0, 0>>
       ELSE <<src[SampleCell(x, y, dx, dy, W, H)] * weight, weight>>
  ELSE LET mid == (lo + hi) \div 2
           a == Convolve(src, ktex, R, x, y, W, H, lo, mid)
           b == Convolve(src, ktex, R, x, y, W, H, mid + 1, hi)
       IN <<a[1] + b[1], a[2] + b[2]>>

\* `potential` after the normalisation, shaders.ts 33-59
Potential(src, ktex, R, x, y, W, H) ==
  LET c == Convolve(src, ktex, R, x, y, W, H, 0, (2 * R + 1) * (2 * R + 1) - 1)
  IN IF c[2] > 0 THEN c[1] \div c[2] ELSE c[1] \div Unit

\* float bell(float x, float mu, float sigma) of UPDATE_SHADER
bellGLSL(x, mu, sigma) == bell(Fin(x), Fin(mu), Fin(sigma)).v

\* the growth without its offset: 2 bell, never negative
Growth_NoOffset(potential, mu, sigma) == 2 * bellGLSL(potential, mu, sigma)

\* 2.0 * bell(potential, u_growthMu, u_growthSigma) - 1.0
Growth(potential, mu, sigma) == 2 * bellGLSL(potential, mu, sigma) - Unit

\* the update without its clamp
UpdateCell_NoClamp(cur, growth, dt) == cur + SMul(dt, growth)

\* clamp(currentState + u_dt * growth, 0.0, 1.0), shaders.ts 65-67
UpdateCell(cur, growth, dt) ==
  Clamp(cur + SMul(dt, growth), 0, Unit)

\* UPDATE_SHADER run for every fragment
UpdateShader(src, ktex, R, W, H, mu, sigma, dt) ==
  [i \in 0..(W * H - 1) |->
     UpdateCell(src[i],
                Growth(Potential(src, ktex, R, CellX(i, W), CellY(i, W), W, H),
                       mu, sigma),
                dt)]

\* v_uv of a cell, fixed point
UVof(c, N) == ((2 * c + 1) * Unit) \div (2 * N)

\* distance(a, b)
Distance(ax, ay, bx, by) ==
  ISqrt((ax - bx) * (ax - bx) + (ay - by) * (ay - by))

\* GLSL smoothstep(edge0, edge1, x) = t * t * (3 - 2 t),
\* t = clamp((x - edge0) / (edge1 - edge0), 0, 1)
smoothstepGLSL(edge0, edge1, x) ==
  LET num == x - edge0
      den == edge1 - edge0
      q == Sign(num) * Sign(den) * ((Abs(num) * Unit) \div Abs(den))
      t == Clamp(q, 0, Unit)
  IN UMul(UMul(t, t), 3 * Unit - 2 * t)

\* the fragment with the brush at full weight everywhere
BrushCell_NoFalloff(cur, u, v, bx, by, radius, value, strength) ==
  Clamp(cur + SMul(SMul(Unit, value), strength), 0, Unit)

\* BRUSH_SHADER for one fragment
BrushCell(cur, u, v, bx, by, radius, value, strength) ==
  LET dist == Distance(u, v, bx, by)
      brush == smoothstepGLSL(radius, (radius * 3) \div 10, dist)
  IN Clamp(cur + SMul(SMul(brush, value), strength), 0, Unit)

BrushShader(src, W, H, bx, by, radius, value, strength) ==
  [i \in 0..(W * H - 1) |->
     BrushCell(src[i], UVof(CellX(i, W), W), UVof(CellY(i, W), H),
               bx, by, radius, value, strength)]

\* texture2D(u_stamp, (u, v)).r on a P x P texture under LINEAR and REPEAT
SampleStamp(pattern, P, u, v) ==
  LET X == u * P - Unit \div 2
      Y == v * P - Unit \div 2
      i0 == X \div Unit
      j0 == Y \div Unit
      fx == X % Unit
      fy == Y % Unit
      tx(i, j) == pattern[(j % P) * P + (i % P)]
      top == (Unit - fx) * tx(i0, j0) + fx * tx(i0 + 1, j0)
      bot == (Unit - fx) * tx(i0, j0 + 1) + fx * tx(i0 + 1, j0 + 1)
  IN ((Unit - fy) * (top \div Unit) + fy * (bot \div Unit)) \div Unit

\* (v_uv - u_stampPos) / u_stampSize + 0.5, one coordinate
StampUV(u, pos, size) ==
  Sign(u - pos) * ((Abs(u - pos) * Unit) \div size) + Unit \div 2

\* the fragment with the pattern written over the cell
StampCell_Overwrite(cur, u, v, pattern, P, px, py, size) ==
  LET su == StampUV(u, px, size)
      sv == StampUV(v, py, size)
  IN IF su >= 0 /\ su <= Unit /\ sv >= 0 /\ sv <= Unit
     THEN SampleStamp(pattern, P, su, sv)
     ELSE cur

\* STAMP_SHADER for one fragment
StampCell(cur, u, v, pattern, P, px, py, size) ==
  LET su == StampUV(u, px, size)
      sv == StampUV(v, py, size)
  IN IF su >= 0 /\ su <= Unit /\ sv >= 0 /\ sv <= Unit
     THEN Max(cur, SampleStamp(pattern, P, su, sv))
     ELSE cur

StampShader(src, W, H, pattern, P, px, py, size) ==
  [i \in 0..(W * H - 1) |->
     StampCell(src[i], UVof(CellX(i, W), W), UVof(CellY(i, W), H),
               pattern, P, px, py, size)]

\* ------------------------------------------------------------------------
\* Inputs of the renderer calls

\* kernels given to setKernel: a one-ring kernel of radius 1 (the unit
\* tests' smallest) and Scutium's two rings at radius 2
SetKernelInputs ==
  {ParamsOf(1, <<[c |-> Fin(Frac(1, 2)), w |-> Fin(Frac(3, 10)), h |-> Fin(Unit)]>>),
   ParamsOf(2, <<[c |-> Fin(Frac(35, 100)), w |-> Fin(Frac(12, 100)), h |-> Fin(Unit)],
                 [c |-> Fin(Frac(7, 10)), w |-> Fin(Frac(1, 10)), h |-> Fin(Frac(1, 2))]>>)}

\* (mu, sigma, dt) given to step, all inside the safe ranges GROWTH_MU_RANGE,
\* GROWTH_SIGMA_RANGE, DT_RANGE: Orbium's, two corners of the ranges, and a
\* wide bell with mu = 1.2 sigma
StepInputs ==
  {[mu |-> Frac(15, 100), sigma |-> Frac(15, 1000), dt |-> Frac(1, 10)],
   [mu |-> Frac(1, 100), sigma |-> Frac(1, 10), dt |-> Frac(1, 2)],
   [mu |-> Frac(1, 2), sigma |-> Frac(1, 1000), dt |-> Frac(1, 100)],
   [mu |-> Frac(12, 100), sigma |-> Frac(1, 10), dt |-> Frac(1, 2)]}

\* arrays given to setState, by name
StateNames == {"dot", "half", "wild"}

\* the array of that name for a W x H grid: one active cell at (0,0);
\* 0.5 everywhere; an array with cells above 1 and below 0
StateData(name, W, H) ==
  [i \in 0..(W * H - 1) |->
     CASE name = "dot" -> IF i = 0 THEN Unit ELSE 0
       [] name = "half" -> Unit \div 2
       [] name = "wild" -> IF i = 0 THEN 2 * Unit
                           ELSE IF i = 1 THEN -(Unit \div 2)
                           ELSE (3 * Unit) \div 10
       [] OTHER -> 0]

\* new Float32Array(w * h): all zero
ZeroField(W, H) == [i \in 0..(W * H - 1) |-> 0]

\* brush calls: centre, radius, and (value, strength) as applyBrush passes
\* them for the draw and the erase tool
BrushInputs ==
  [x : {Unit \div 8, Unit \div 2}, y : {Unit \div 8}, radius : {Frac(3, 10)},
   tool : {[value |-> Unit, strength |-> Frac(4, 10)],
           [value |-> -Unit, strength |-> Frac(6, 10)]}]

\* stamp patterns: a 1 x 1 pattern of 0.9, a 1 x 1 pattern of 2.0 (outside
\* [0,1]) and a 2 x 2 pattern
StampPatterns ==
  {[size |-> 1, data |-> [i \in 0..0 |-> Frac(9, 10)]],
   [size |-> 1, data |-> [i \in 0..0 |-> 2 * Unit]],
   [size |-> 2, data |-> [i \in 0..3 |-> Frac(i, 4)]]}

\* stamp calls: pattern, centre, scale (the default scale 0.15 covers no
\* cell centre of a grid this small)
StampInputs ==
  [pattern : StampPatterns, x : {Unit \div 2}, y : {Unit \div 2, Unit \div 8},
   scale : {Frac(1, 2)}]

\* ------------------------------------------------------------------------
VARIABLES
  gridWidth,   \* LeniaRenderer._gridWidth
  gridHeight,  \* LeniaRenderer._gridHeight
  texA,        \* the field held by texA (attached to fbA)
  texB,        \* the field held by texB (attached to fbB)
  currentTex,  \* LeniaRenderer.currentTex
  kernelTex,   \* LeniaRenderer.kernelTex: NullTex or the kernel's weights
  kernelRadius,\* LeniaRenderer._kernelRadius
  lastOp,      \* history: the last renderer call and its arguments
  srcTex,      \* history: the buffer the last call read, or "none"
  dstTex,      \* history: the buffer written by the latest call that wrote one
  prevField,   \* history: the current field before the last call
  nOps,        \* history: the number of calls so far
  kpc,         \* position in generateKernel: "idle", "call", "filled", "done"
  kparams,     \* its argument
  kernel,      \* the Float32Array `kernel`
  ksum         \* the local `sum`

\* App (App.tsx) and LeniaCanvas (LeniaCanvas.tsx)
VARIABLES
  species,         \* App state `species`
  growthMu,        \* App state `growthMu`
  growthSigma,     \* App state `growthSigma`
  dt,              \* App state `dt`
  brushSize,       \* App state `brushSize`
  tool,            \* App state `tool`
  gridSize,        \* App state `gridSize`
  isRunning,       \* App state `isRunning`
  speed,           \* App state `speed`
  stepCount,       \* App state `stepCount`
  mutation,        \* App state `mutation`
  mutationClosure, \* growthMu and growthSigma as the mutation effect's closure holds them
  cinematic,       \* App state `cinematic`
  cinematicIdx,    \* cinematicIdxRef.current
  morphRef,        \* morphRef.current: 0 for null, else the morph's number
  rafMorph,        \* the morph `animate` callbacks requestAnimationFrame holds
  effectPending,   \* the advanced-params effect is scheduled and has not run
  growthRef,       \* LeniaCanvas growthRef.current
  dtRef,           \* LeniaCanvas dtRef.current
  rendererRef,     \* LeniaCanvas rendererRef.current is not null
  contextLost,     \* LeniaCanvas contextLostRef.current
  animPending,     \* the canvas `animate` callback requestAnimationFrame holds
  stepRef,         \* LeniaCanvas stepRef.current
  engineCall,      \* history: the last step or brush call and its arguments
  lastAct,         \* history: the last handler or callback that ran
  morphCount,      \* history: the number of morphs started
  resizeCount,     \* history: the number of handleGridResize calls
  kernelId,        \* the species whose kernel the renderer holds ("" for none)
  fieldBase,       \* what the field was last reset to, and the edits drawn since
  fieldUpdates,    \* history: update passes drawn since the last clear or resize
  appOps           \* history: the number of handlers run so far

\* the population chart's ring buffer (App.tsx) and safeClamp on its own
VARIABLES
  showPopChart,    \* App state `showPopChart`
  popRing,         \* popRingRef.current: buf, idx, count
  popInserted,     \* history: the samples inserted since the last reset
  scpc,            \* position in safeClamp: "idle", "call", "done"
  scArgs,          \* its arguments
  scResult         \* its result

\* parts checked on their own: the morph blend as a function
VARIABLES
  blend,           \* a morph blend: position, the two presets, t and the result
  frag,            \* the update pass in progress: source at its start, cells to draw
  fps,             \* App state `fps`
  perfRef,         \* perfRef.current: lowCount, highCount, degraded
  perfWarning,     \* App state `perfWarning`
  perfHist,        \* history: checks run, and the current runs of low and of high checks
  tour,            \* history: the species the cinematic tour placed, latest last
  isDrawing,       \* LeniaCanvas isDrawingRef.current
  pointerDown      \* history: a down event was the last of the down, up and leave events

rvars == <<gridWidth, gridHeight, texA, texB, currentTex, kernelTex,
           kernelRadius, lastOp, srcTex, dstTex, prevField, nOps>>

kvars == <<kpc, kparams, kernel, ksum>>

\* App state and the canvas's refs
avars == <<species, growthMu, growthSigma, dt, brushSize, tool, gridSize,
           isRunning, speed, stepCount, mutation, mutationClosure, cinematic,
           cinematicIdx, morphRef, rafMorph, effectPending, growthRef, dtRef,
           rendererRef, contextLost, animPending, stepRef, engineCall, lastAct,
           morphCount, resizeCount, kernelId, fieldBase, fieldUpdates, appOps>>

pvars == <<showPopChart, popRing, popInserted>>

svars == <<scpc, scArgs, scResult>>

qvars == <<fps, perfRef, perfWarning, perfHist>>

hvars == <<tour, isDrawing, pointerDown>>

mvars == <<blend, frag, qvars, hvars>>

xvars == <<avars, pvars, svars, mvars>>

vars == <<rvars, kvars, xvars>>

\* a texture field that is still null
NullTex == <<>>

Other(t) == IF t = "A" THEN "B" ELSE "A"

\* this.currentTex === 'A' ? this.texA : this.texB
Tex(t) == IF t = "A" THEN texA ELSE texB

\* the field held by the buffer designated current
CurrentField == Tex(currentTex)

\* setState writing the buffer that is not current
setStateTex_Other == Other(currentTex)

\* setState: tex = currentTex === 'A' ? texA : texB (renderer.ts 214)
setStateTex == currentTex

\* step: srcTex, dstFB and the swap (renderer.ts 254, 255, 282)
StepSrc == currentTex
\* step drawing into the buffer it reads
StepDst_InPlace == currentTex
StepDst == Other(currentTex)
\* step without the swap
StepSwap_None == currentTex
StepSwap == Other(currentTex)

\* brush: srcTex, dstFB and the swap (renderer.ts 314, 315, 333)
BrushSrc == currentTex
BrushDst == Other(currentTex)
\* brush without the swap
BrushSwap_None == currentTex
BrushSwap == Other(currentTex)

\* stamp: srcTex, dstFB and the swap (renderer.ts 347, 348, 368)
StampSrc == currentTex
StampDst == Other(currentTex)
StampSwap == Other(currentTex)

\* the buffer display() binds as u_state (renderer.ts 292)
displayTex == currentTex

\* the buffer whose framebuffer readState() reads (renderer.ts 233)
readStateTex == currentTex

\* the buffer whose framebuffer readAverageDensity() reads (renderer.ts 403)
readAverageDensityTex == currentTex

\* readState(): the R channel of every pixel of that framebuffer
readState == Tex(readStateTex)

RECURSIVE FieldSum(_, _, _)
FieldSum(f, lo, hi) ==
  IF lo > hi THEN 0
  ELSE IF lo = hi THEN f[lo]
  ELSE FieldSum(f, lo, (lo + hi) \div 2) + FieldSum(f, (lo + hi) \div 2 + 1, hi)

\* readAverageDensity(): sum / total, kept as the fraction
readAverageDensity ==
  [sum |-> FieldSum(Tex(readAverageDensityTex), 0, gridWidth * gridHeight - 1),
   total |-> gridWidth * gridHeight]

\* new LeniaRenderer(canvas, w, h): createFramebuffers allocates two
\* textures, which WebGL zero-fills, and sets currentTex to 'A'
RendererInit(w, h) ==
  /\ gridWidth = w
  /\ gridHeight = h
  /\ texA = ZeroField(w, h)
  /\ texB = ZeroField(w, h)
  /\ currentTex = "A"
  /\ kernelTex = NullTex
  /\ kernelRadius = 13
  /\ lastOp = [op |-> "new"]
  /\ srcTex = "none"
  /\ dstTex = "A"
  /\ prevField = ZeroField(w, h)
  /\ nOps = 0

KernelIdle ==
  /\ kpc = "idle"
  /\ kparams = ParamsOf(1, <<>>)
  /\ kernel = <<>>
  /\ ksum = Fin(0)

\* the App is not mounted
AppIdle ==
  /\ species = "" /\ growthMu = NaN /\ growthSigma = NaN /\ dt = NaN
  /\ brushSize = NaN /\ tool = "" /\ gridSize = 0
  /\ isRunning = FALSE /\ speed = NaN /\ stepCount = 0
  /\ mutation = FALSE /\ mutationClosure = <<>>
  /\ cinematic = FALSE /\ cinematicIdx = 0
  /\ morphRef = 0 /\ rafMorph = {} /\ effectPending = FALSE
  /\ growthRef = <<>> /\ dtRef = NaN
  /\ rendererRef = FALSE /\ contextLost = FALSE /\ animPending = FALSE
  /\ stepRef = 0 /\ engineCall = [op |-> "none"] /\ lastAct = [op |-> "none"]
  /\ morphCount = 0 /\ resizeCount = 0 /\ fieldUpdates = 0 /\ appOps = 0
  /\ kernelId = "" /\ fieldBase = <<>>

\* the population chart is off and empty
PopIdle ==
  /\ showPopChart = FALSE
  /\ popRing = [buf |-> <<>>, idx |-> 0, count |-> 0]
  /\ popInserted = <<>>

\* safeClamp is not being called
ClampIdle ==
  /\ scpc = "idle"
  /\ scArgs = <<>>
  /\ scResult = NaN

\* the performance monitor as the App mounts it (App.tsx 45, 65, 66)
PerfIdle ==
  /\ fps = 0
  /\ perfRef = [lowCount |-> 0, highCount |-> 0, degraded |-> FALSE]
  /\ perfWarning = FALSE
  /\ perfHist = [checks |-> 0, lowRun |-> 0, highRun |-> 0]

\* nothing of the parts checked on their own is in progress
MiscIdle ==
  /\ blend = [pc |-> "idle"]
  /\ frag = [pc |-> "idle"]
  /\ PerfIdle
  /\ tour = <<>>
  /\ isDrawing = FALSE
  /\ pointerDown = FALSE

Init ==
  /\ \E n \in GridSizes : RendererInit(n, n)
  /\ KernelIdle
  /\ AppIdle /\ PopIdle /\ ClampIdle /\ MiscIdle

\* what every renderer call records
Called(op, src, dst) ==
  /\ nOps < MaxOps
  /\ nOps' = nOps + 1
  /\ lastOp' = op
  /\ srcTex' = src
  /\ dstTex' = dst
  /\ prevField' = CurrentField

\* write field f to buffer t
WriteTex(t, f) ==
  IF t = "A" THEN texA' = f /\ UNCHANGED texB
  ELSE texB' = f /\ UNCHANGED texA

\* setKernel(params)
SetKernel ==
  \E params \in SetKernelInputs :
    /\ Called([op |-> "setKernel"], "none", dstTex)
    /\ kernelTex' = generateKernel(params)
    /\ kernelRadius' = params.radius
    /\ UNCHANGED <<gridWidth, gridHeight, texA, texB, currentTex, kvars, xvars>>

\* setState(data): texSubImage2D into the texture of currentTex
SetState ==
  \E name \in StateNames :
    /\ Called([op |-> "setState", data |-> name], "none", setStateTex)
    /\ WriteTex(setStateTex, StateData(name, gridWidth, gridHeight))
    /\ UNCHANGED <<gridWidth, gridHeight, currentTex, kernelTex, kernelRadius, kvars, xvars>>

\* clear(): setState(new Float32Array(w * h))
Clear ==
  /\ Called([op |-> "clear"], "none", setStateTex)
  /\ WriteTex(setStateTex, ZeroField(gridWidth, gridHeight))
  /\ UNCHANGED <<gridWidth, gridHeight, currentTex, kernelTex, kernelRadius, kvars, xvars>>

\* step(growth, dt)
Step ==
  \E in \in StepInputs :
    IF kernelTex = NullTex
    THEN /\ Called([op |-> "step", in |-> in], "none", dstTex)
         /\ UNCHANGED <<gridWidth, gridHeight, texA, texB, currentTex,
                        kernelTex, kernelRadius, kvars, xvars>>
    ELSE /\ Called([op |-> "step", in |-> in], StepSrc, StepDst)
         /\ WriteTex(StepDst,
                     UpdateShader(Tex(StepSrc), kernelTex, kernelRadius,
                                  gridWidth, gridHeight, in.mu, in.sigma, in.dt))
         /\ currentTex' = StepSwap
         /\ UNCHANGED <<gridWidth, gridHeight, kernelTex, kernelRadius, kvars, xvars>>

\* brush(uvX, uvY, radius, value, strength)
Brush ==
  \E in \in BrushInputs :
    /\ Called([op |-> "brush", in |-> in], BrushSrc, BrushDst)
    /\ WriteTex(BrushDst,
                BrushShader(Tex(BrushSrc), gridWidth, gridHeight,
                            in.x, in.y, in.radius, in.tool.value, in.tool.strength))
    /\ currentTex' = BrushSwap
    /\ UNCHANGED <<gridWidth, gridHeight, kernelTex, kernelRadius, kvars, xvars>>

\* stamp(pattern, patternSize, uvX, uvY, scale)
Stamp ==
  \E in \in StampInputs :
    /\ Called([op |-> "stamp", in |-> in], StampSrc, StampDst)
    /\ WriteTex(StampDst,
                StampShader(Tex(StampSrc), gridWidth, gridHeight,
                            in.pattern.data, in.pattern.size, in.x, in.y, in.scale))
    /\ currentTex' = StampSwap
    /\ UNCHANGED <<gridWidth, gridHeight, kernelTex, kernelRadius, kvars, xvars>>

\* resize(width, height): createFramebuffers
Resize ==
  \E w \in GridSizes, h \in GridSizes :
    /\ nOps < MaxOps
    /\ nOps' = nOps + 1
    /\ lastOp' = [op |-> "resize"]
    /\ srcTex' = "none"
    /\ dstTex' = "A"
    /\ prevField' = ZeroField(w, h)
    /\ gridWidth' = w
    /\ gridHeight' = h
    /\ texA' = ZeroField(w, h)
    /\ texB' = ZeroField(w, h)
    /\ currentTex' = "A"
    /\ UNCHANGED <<kernelTex, kernelRadius, kvars, xvars>>

Next == SetKernel \/ SetState \/ Clear \/ Step \/ Brush \/ Stamp \/ Resize

Spec == Init /\ [][Next]_vars

\* ------------------------------------------------------------------------
\* generateKernel on its own, over KernelInputs

InitKernel ==
  /\ RendererInit(2, 2)
  /\ kparams \in KernelInputs
  /\ kpc = "call"
  /\ kernel = <<>>
  /\ ksum = Fin(0)
  /\ AppIdle /\ PopIdle /\ ClampIdle /\ MiscIdle

\* renderer.ts 469-496
GenerateKernelFill ==
  /\ kpc = "call"
  /\ kernel' = KernelFill(kparams)
  /\ ksum' = KernelSum(KernelFill(kparams), kparams)
  /\ kpc' = "filled"
  /\ UNCHANGED <<kparams, rvars, xvars>>

\* renderer.ts 498-505
GenerateKernelNormalize ==
  /\ kpc = "filled"
  /\ kernel' = KernelNormalize(kernel, ksum)
  /\ kpc' = "done"
  /\ UNCHANGED <<kparams, ksum, rvars, xvars>>

NextKernel == GenerateKernelFill \/ GenerateKernelNormalize

SpecKernel == InitKernel /\ [][NextKernel]_vars

\* ------------------------------------------------------------------------
\* Properties

InUnitRange(f) == \A i \in DOMAIN f : f[i] >= 0 /\ f[i] <= Unit

IsZeroField(f) == \A i \in DOMAIN f : f[i] = 0

\* the last call was a step that ran the update shader
StepRan == lastOp.op = "step" /\ srcTex # "none"

\* C1: after every renderer call, every cell of the current field is in
\* [0,1], also after a setState or a stamp whose input has values outside
\* [0,1].
C1_FieldInUnitRange == InUnitRange(CurrentField)

\* C2: a step from a field whose cells are all in [0,1], with (mu, sigma,
\* dt) in the safe ranges, gives a field whose cells are all in [0,1]; the
\* growth of every cell is in [-1,1].
C2_StepBounded ==
  (StepRan /\ InUnitRange(prevField)) =>
     /\ InUnitRange(CurrentField)
     /\ \A i \in DOMAIN prevField :
          LET g == Growth(Potential(prevField, kernelTex, kernelRadius,
                                    CellX(i, gridWidth), CellY(i, gridWidth),
                                    gridWidth, gridHeight),
                          lastOp.in.mu, lastOp.in.sigma)
          IN g >= -Unit /\ g <= Unit

\* a step whose clamp was needed at the lower and at no bound
C2_Witness ==
  /\ StepRan
  /\ InUnitRange(prevField)
  /\ \E i \in DOMAIN prevField :
       prevField[i] + SMul(lastOp.in.dt,
          Growth(Potential(prevField, kernelTex, kernelRadius,
                           CellX(i, gridWidth), CellY(i, gridWidth),
                           gridWidth, gridHeight),
                 lastOp.in.mu, lastOp.in.sigma)) < 0
  /\ \E i \in DOMAIN CurrentField : CurrentField[i] > 0 /\ CurrentField[i] < Unit

\* C3: a step reads the current buffer only and writes the other buffer
\* only, then toggles current once: the written buffer becomes current, the
\* buffer read is left as it was, and a step reads what the step before it
\* wrote.
C3_StepPingPong ==
  [][(lastOp'.op = "step" /\ nOps' = nOps + 1 /\ kernelTex # NullTex) =>
       /\ srcTex' = currentTex
       /\ dstTex' = Other(currentTex)
       /\ srcTex' # dstTex'
       /\ currentTex' = dstTex'
       /\ (currentTex = "A" => texA' = texA)
       /\ (currentTex = "B" => texB' = texB)
       /\ (StepRan => srcTex' = dstTex)]_vars

\* a second step in a row has run, reading B and writing A
C3_Witness ==
  /\ StepRan
  /\ srcTex = "B"
  /\ dstTex = "A"
  /\ currentTex = "A"
  /\ texA # texB
  /\ prevField = texB

\* C4: brush and stamp write the non-current buffer and toggle current once,
\* so display, readState and readAverageDensity read the buffer written by
\* the most recent mutation, and every step, brush and stamp reads that
\* buffer: no edit is lost or applied to a stale field.
C4_ReadersSeeLatest ==
  /\ [](displayTex = dstTex /\ readStateTex = dstTex
        /\ readAverageDensityTex = dstTex)
  /\ [][(nOps' = nOps + 1 /\ srcTex' # "none") =>
          /\ srcTex' = dstTex
          /\ dstTex' = Other(srcTex')
          /\ (lastOp'.op = "brush" =>
                readState' = BrushShader(readState, gridWidth, gridHeight,
                                         lastOp'.in.x, lastOp'.in.y,
                                         lastOp'.in.radius, lastOp'.in.tool.value,
                                         lastOp'.in.tool.strength))
          /\ (lastOp'.op = "stamp" =>
                readState' = StampShader(readState, gridWidth, gridHeight,
                                         lastOp'.in.pattern.data,
                                         lastOp'.in.pattern.size, lastOp'.in.x,
                                         lastOp'.in.y, lastOp'.in.scale))]_vars

\* a brush or stamp that changed the field, after an earlier toggle
C4_Witness ==
  /\ lastOp.op \in {"brush", "stamp"}
  /\ nOps >= 2
  /\ currentTex = "A"
  /\ dstTex = "A"
  /\ readState # prevField
  /\ texB = prevField

\* C5 as stated: a step from the all-zero field, with any (mu, sigma, dt) in
\* the safe ranges, leaves the field all-zero.
C5_ZeroFixedPoint ==
  (StepRan /\ IsZeroField(prevField)) => IsZeroField(CurrentField)

\* mu >= 1.1775 sigma, which makes 2 exp(-mu^2 / (2 sigma^2)) <= 1
GrowthAtZeroNonPositive(in) == in.mu * 10000 >= in.sigma * 11775

\* C5 amended: a step from the all-zero field leaves it all-zero when the
\* growth at potential 0 is not positive, that is when mu >= 1.1775 sigma.
C5_ZeroFixedPointWhenDecaying ==
  (StepRan /\ IsZeroField(prevField) /\ GrowthAtZeroNonPositive(lastOp.in)) =>
     IsZeroField(CurrentField)

\* such a step has run on a 4 x 4 grid, with the wide bell mu = 1.2 sigma
C5_Witness ==
  /\ StepRan
  /\ IsZeroField(prevField)
  /\ GrowthAtZeroNonPositive(lastOp.in)
  /\ lastOp.in.sigma = Frac(1, 10)
  /\ gridWidth = 4
  /\ gridHeight = 4
  /\ IsZeroField(CurrentField)

\* C6: right after clear(), readAverageDensity() is exactly 0, whichever
\* buffer is current.
C6_ClearThenDensityZero ==
  lastOp.op = "clear" =>
     /\ readAverageDensity.sum = 0
     /\ readAverageDensity.total = gridWidth * gridHeight
     /\ IsZeroField(Tex(readAverageDensityTex))

\* clear() of a non-zero field held by B, while A is non-zero too
C6_Witness ==
  /\ lastOp.op = "clear"
  /\ currentTex = "B"
  /\ ~IsZeroField(prevField)
  /\ ~IsZeroField(texA)
  /\ readAverageDensity.sum = 0

\* the offsets lo..hi of the window that wrap from (x, y) onto cell (0, 0)
\* and are not skipped, their weights added
RECURSIVE WrapWeight(_, _, _, _, _, _, _, _)
WrapWeight(ktex, R, x, y, W, H, lo, hi) ==
  IF lo > hi THEN 0
  ELSE IF lo = hi THEN
    LET dx == (lo % (2 * R + 1)) - R
        dy == (lo \div (2 * R + 1)) - R
        w == KernelWeight(ktex, R, dx, dy)
    IN IF (x + dx) % W = 0 /\ (y + dy) % H = 0 /\ w >= WeightEpsilon THEN w ELSE 0
  ELSE WrapWeight(ktex, R, x, y, W, H, lo, (lo + hi) \div 2)
       + WrapWeight(ktex, R, x, y, W, H, (lo + hi) \div 2 + 1, hi)

\* the current field has one active cell, at (0, 0)
OneCellAtOrigin ==
  CurrentField[0] > 0 /\ \A i \in DOMAIN CurrentField : i # 0 => CurrentField[i] = 0

\* C7: the convolution samples cell ((x+dx) mod W, (y+dy) mod H) for every
\* cell and kernel offset; a single active cell at (0,0) contributes to
\* every cell, across the edges too, with the weights of the offsets that
\* lead from that cell to (0,0) modulo the grid size.
C7_ToroidalSampling ==
  kernelTex # NullTex =>
    /\ \A x \in 0..(gridWidth - 1), y \in 0..(gridHeight - 1),
          dx \in (-kernelRadius)..kernelRadius, dy \in (-kernelRadius)..kernelRadius :
         SampleCell(x, y, dx, dy, gridWidth, gridHeight)
           = ((y + dy) % gridHeight) * gridWidth + ((x + dx) % gridWidth)
    /\ OneCellAtOrigin =>
         \A x \in 0..(gridWidth - 1), y \in 0..(gridHeight - 1) :
           Convolve(CurrentField, kernelTex, kernelRadius, x, y, gridWidth,
                    gridHeight, 0, (2 * kernelRadius + 1) * (2 * kernelRadius + 1) - 1)[1]
             = CurrentField[0]
               * WrapWeight(kernelTex, kernelRadius, x, y, gridWidth, gridHeight,
                            0, (2 * kernelRadius + 1) * (2 * kernelRadius + 1) - 1)

\* one active cell at (0,0) of a 4 x 4 grid under a radius-1 kernel: the
\* cells on the right and the top edge get the potential the cells next to
\* (0,0) get
C7_Witness ==
  /\ kernelTex # NullTex
  /\ kernelRadius = 1
  /\ gridWidth = 4
  /\ gridHeight = 4
  /\ OneCellAtOrigin
  /\ Potential(CurrentField, kernelTex, 1, 3, 0, 4, 4) > 0
  /\ Potential(CurrentField, kernelTex, 1, 3, 0, 4, 4)
       = Potential(CurrentField, kernelTex, 1, 1, 0, 4, 4)
  /\ Potential(CurrentField, kernelTex, 1, 0, 3, 4, 4)
       = Potential(CurrentField, kernelTex, 1, 0, 1, 4, 4)
  /\ Potential(CurrentField, kernelTex, 1, 2, 2, 4, 4) = 0

\* radius >= 1, at least one ring, centers in [0,1], widths > 0, heights > 0
ValidKernelSpec(params) ==
  /\ params.radius >= 1
  /\ Len(params.peaks) >= 1
  /\ \A p \in DOMAIN params.peaks :
       /\ IsFinite(params.peakCenters[p])
       /\ params.peakCenters[p].v >= 0
       /\ params.peakCenters[p].v <= Unit
       /\ IsFinite(params.peakWidths[p])
       /\ params.peakWidths[p].v > 0
       /\ IsFinite(params.peaks[p])
       /\ params.peaks[p].v > 0

KernelFiniteNonNegative == \A i \in DOMAIN kernel : IsFinite(kernel[i]) /\ kernel[i].v >= 0

\* the weights sum to 1 within 1e-2
KernelSumsToOne ==
  LET total == KernelSum(kernel, kparams)
  IN IsFinite(total) /\ Abs(total.v - Unit) <= Unit \div 100

C9_KernelLocality ==
  kpc \in {"filled", "done"} =>
    \A dx \in (-kparams.radius)..kparams.radius, dy \in (-kparams.radius)..kparams.radius :
      dx * dx + dy * dy > kparams.radius * kparams.radius =>
        kernel[KernelIndex(kparams.radius, dx, dy)] = Fin(0)

\* a normalised kernel whose cells at distance exactly 1 are not zero
C9_Witness ==
  /\ kpc = "done"
  /\ FGt(ksum, Fin(0))
  /\ kparams.radius >= 2
  /\ kernel[KernelIndex(kparams.radius, kparams.radius, 0)].v > 0
  /\ kernel[KernelIndex(kparams.radius, kparams.radius, kparams.radius)] = Fin(0)

\* some ring has a width that is zero, negative or NaN
HasDegenerateRing(params) ==
  \E p \in DOMAIN params.peakWidths :
     IsNaN(params.peakWidths[p]) \/ params.peakWidths[p].v <= 0

\* C10: a kernel specification with a ring of degenerate width (zero,
\* negative or NaN), whatever its center in [0,1], gives a kernel with no NaN
\* and no Infinity entry.
C10_DegenerateRingFinite ==
  (kpc = "done" /\ HasDegenerateRing(kparams)) =>
     \A i \in DOMAIN kernel : IsFinite(kernel[i])

\* ------------------------------------------------------------------------
\* safeClamp (renderer.ts 783-790)

\* Math.max(a, b), Math.min(a, b): NaN when either argument is NaN.  The
\* arguments are bound to x and y so that each is evaluated once.
MathMax(a, b) ==
  CHOOSE r \in {IF IsNaN(x) \/ IsNaN(y) THEN NaN ELSE IF FGt(x, y) THEN x ELSE y :
                  x \in {a}, y \in {b}} : TRUE
MathMin(a, b) ==
  CHOOSE r \in {IF IsNaN(x) \/ IsNaN(y) THEN NaN ELSE IF FGt(x, y) THEN y ELSE x :
                  x \in {a}, y \in {b}} : TRUE

\* the clamp without the NaN substitution
safeClamp_NoFallback(value, min, max, fallback) == MathMax(min, MathMin(max, value))

\* Math.max(min, Math.min(max, isNaN(value) ? fallback : value))
safeClamp(value, min, max, fallback) ==
  MathMax(min, MathMin(max, IF IsNaN(value) THEN fallback ELSE value))

\* a <= b (false when either side is NaN)
FLe(a, b) == ~IsNaN(a) /\ ~IsNaN(b) /\ ~FGt(a, b)

\* values given to safeClamp: NaN, the infinities, below, inside, above
ClampValues ==
  {NaN, Inf(1), Inf(-1), Fin(-5 * Unit), Fin(0), Fin(Frac(1, 2)), Fin(Frac(3, 4)),
   Fin(Unit), Fin(10 * Unit)}

\* [min, max] with min <= max: the unit tests' ranges, the three safe
\* ranges of constants.ts, a single point and the whole line
ClampRanges ==
  {<<Fin(0), Fin(Unit)>>, <<Fin(Frac(1, 2)), Fin(Unit)>>,
   <<Fin(Frac(1, 100)), Fin(Frac(1, 2))>>, <<Fin(Frac(1, 1000)), Fin(Frac(1, 10))>>,
   <<Fin(Frac(3, 4)), Fin(Frac(3, 4))>>, <<Inf(-1), Inf(1)>>}

\* fallbacks: inside and outside the range, infinite, NaN
ClampFallbacks ==
  {Fin(Frac(1, 2)), Fin(Frac(2, 10)), Fin(Frac(15, 100)), Fin(2 * Unit), Inf(1), NaN}

InitClamp ==
  /\ RendererInit(2, 2) /\ KernelIdle /\ AppIdle /\ PopIdle /\ MiscIdle
  /\ scpc = "call"
  /\ scArgs \in [value : ClampValues, range : ClampRanges, fallback : ClampFallbacks]
  /\ scResult = NaN

\* the call returns
SafeClampReturn ==
  /\ scpc = "call"
  /\ scResult' = safeClamp(scArgs.value, scArgs.range[1], scArgs.range[2], scArgs.fallback)
  /\ scpc' = "done"
  /\ UNCHANGED <<scArgs, rvars, kvars, avars, pvars, mvars>>

NextClamp == SafeClampReturn

SpecClamp == InitClamp /\ [][NextClamp]_vars

\* what the claim says safeClamp returns for these arguments
ClampExpected(value, min, max, fallback) ==
  LET v == IF IsNaN(value) THEN fallback ELSE value
  IN IF FGt(min, v) THEN min ELSE IF FGt(v, max) THEN max ELSE v

\* C20 as stated: with min <= max, safeClamp returns a value in [min, max]:
\* the value itself when in range, min below it (-Infinity included), max
\* above it (+Infinity included), and for NaN the fallback clamped into
\* [min, max].
C20_SafeClampInRange ==
  scpc = "done" =>
    /\ FLe(scArgs.range[1], scResult) /\ FLe(scResult, scArgs.range[2])
    /\ scResult = ClampExpected(scArgs.value, scArgs.range[1], scArgs.range[2],
                                scArgs.fallback)

\* C20 amended: the same, for a fallback that is not NaN; when the value and
\* the fallback are both NaN, safeClamp returns NaN.
C20_SafeClampInRangeUnlessNaNFallback ==
  scpc = "done" =>
    IF IsNaN(scArgs.value) /\ IsNaN(scArgs.fallback)
    THEN IsNaN(scResult)
    ELSE /\ FLe(scArgs.range[1], scResult) /\ FLe(scResult, scArgs.range[2])
         /\ scResult = ClampExpected(scArgs.value, scArgs.range[1], scArgs.range[2],
                                     scArgs.fallback)

\* a NaN value whose fallback lies below the range came back as min
C20_Witness ==
  /\ scpc = "done"
  /\ IsNaN(scArgs.value)
  /\ FGt(scArgs.range[1], scArgs.fallback)
  /\ scResult = scArgs.range[1]

\* ------------------------------------------------------------------------
\* The population chart's ring buffer (App.tsx 59-62, 320-410)

\* ring buffer size
POP_CHART_SAMPLES == 200

\* Most samples taken between two resets of the chart
MaxSamples == 450

\* new Float64Array(POP_CHART_SAMPLES), and buf.fill(0)
EmptyRing ==
  [buf |-> [i \in 0..(POP_CHART_SAMPLES - 1) |-> 0], idx |-> 0, count |-> 0]

\* the insert without the wrap of idx
RingInsert_NoWrap(ring, density) ==
  [buf |-> [ring.buf EXCEPT ![ring.idx % POP_CHART_SAMPLES] = density],
   idx |-> ring.idx + 1,
   count |-> Min(ring.count + 1, POP_CHART_SAMPLES)]

\* ring.buf[ring.idx] = density; idx = (idx + 1) % SAMPLES;
\* count = Math.min(count + 1, SAMPLES)
RingInsert(ring, density) ==
  [buf |-> [ring.buf EXCEPT ![ring.idx] = density],
   idx |-> (ring.idx + 1) % POP_CHART_SAMPLES,
   count |-> Min(ring.count + 1, POP_CHART_SAMPLES)]

\* startIdx = (ring.idx - n + POP_CHART_SAMPLES) % POP_CHART_SAMPLES
RingStartIdx(ring) ==
  (ring.idx - ring.count + POP_CHART_SAMPLES) % POP_CHART_SAMPLES

\* the values the drawing loops read: buf[(startIdx + i) % SAMPLES], i < n
RingRead(ring) ==
  [i \in 1..ring.count |->
     ring.buf[(RingStartIdx(ring) + i - 1) % POP_CHART_SAMPLES]]

\* the chart starts hidden, over a zeroed buffer
InitPop ==
  /\ RendererInit(2, 2) /\ KernelIdle /\ AppIdle /\ ClampIdle /\ MiscIdle
  /\ showPopChart = FALSE
  /\ popRing = EmptyRing
  /\ popInserted = <<>>

\* handlePopChartToggle: showing the chart resets the ring
HandlePopChartToggle ==
  /\ showPopChart' = ~showPopChart
  /\ IF ~showPopChart
     THEN popRing' = EmptyRing /\ popInserted' = <<>>
     ELSE UNCHANGED <<popRing, popInserted>>
  /\ UNCHANGED <<rvars, kvars, avars, svars, mvars>>

\* the sampling interval's callback, while the chart is shown.  The density
\* read is the sample's serial number since the reset, so that every value in
\* the buffer is distinct and a lost or misplaced sample shows.
PopSample ==
  /\ showPopChart
  /\ Len(popInserted) < MaxSamples
  /\ LET density == Len(popInserted) + 1
     IN /\ popRing' = RingInsert(popRing, density)
        /\ popInserted' = Append(popInserted, density)
  /\ UNCHANGED <<showPopChart, rvars, kvars, avars, svars, mvars>>

NextPop == HandlePopChartToggle \/ PopSample

SpecPop == InitPop /\ [][NextPop]_vars

\* the last c values of sequence s, oldest first
LastOf(s, c) == [i \in 1..c |-> s[Len(s) - c + i]]

\* C19: after n inserts since the reset, count = min(n, capacity),
\* idx = n mod capacity, and reading count entries from
\* (idx - count + capacity) mod capacity gives the last count inserted
\* values, oldest first; filling exactly to capacity leaves idx at 0.
C19_RingKeepsMostRecent ==
  LET n == Len(popInserted)
  IN /\ popRing.count = Min(n, POP_CHART_SAMPLES)
     /\ popRing.idx = n % POP_CHART_SAMPLES
     /\ RingRead(popRing) = LastOf(popInserted, popRing.count)
     /\ (n = POP_CHART_SAMPLES => popRing.idx = 0)

\* the buffer has wrapped: more samples than the capacity were inserted and
\* the oldest sample kept is not the first one
C19_Witness ==
  /\ Len(popInserted) > POP_CHART_SAMPLES + 2
  /\ popRing.count = POP_CHART_SAMPLES
  /\ popRing.idx > 0
  /\ RingRead(popRing)[1] = Len(popInserted) - POP_CHART_SAMPLES + 1

\* ------------------------------------------------------------------------
\* The App's numbers (App.tsx, constants.ts): binary floating point.  A finite
\* value Fin(v) stands for v / 2^FracBits, and every arithmetic result is
\* rounded to SigBits significant bits, ties to even, as IEEE 754 rounds a
\* double to 53.

\* binary digits after the point
FracBits == 14

\* significant bits kept by every operation
SigBits == 8

Pow2(n) == 2 ^ n

\* the number of bits of n >= 0
RECURSIVE BitLen(_)
BitLen(n) == IF n = 0 THEN 0 ELSE 1 + BitLen(n \div 2)

\* 1.0
One == Pow2(FracBits)

\* num / den >= 0 rounded to the nearest representable value, ties to even
RoundQ(num, den) ==
  CHOOSE r \in
    {LET d == den * Pow2(e)
         f == num \div d
         r2 == 2 * (num % d)
     IN (IF r2 > d \/ (r2 = d /\ f % 2 = 1) THEN f + 1 ELSE f) * Pow2(e) :
       e \in {Max(BitLen(num \div den) - SigBits, 0)}} : TRUE

RoundS(num, den) == Sign(num) * RoundQ(Abs(num), den)

\* the double nearest to the decimal literal n/d; also n / d for two integers
Dec(n, d) == Fin(RoundS(n * One, d))

\* a + b (the operands are bound to x and y so that each is evaluated once)
DAdd(a, b) ==
  CHOOSE r \in
    {IF IsFinite(x) /\ IsFinite(y) THEN Fin(RoundS(x.v + y.v, 1)) ELSE FAdd(x, y) :
       x \in {a}, y \in {b}} : TRUE

\* a - b
DSub(a, b) == DAdd(a, FNeg(b))

\* a * b
DMul(a, b) ==
  CHOOSE r \in
    {IF IsFinite(x) /\ IsFinite(y) THEN Fin(RoundS(x.v * y.v, One)) ELSE FMul(x, y) :
       x \in {a}, y \in {b}} : TRUE

\* the cubic with its sign wrong: c * c * (3 + 2 * c)
smoothstep_SignError(t) ==
  CHOOSE r \in {DMul(DMul(c, c), DAdd(Dec(3, 1), DMul(Dec(2, 1), c))) :
                  c \in {MathMax(Fin(0), MathMin(Fin(One), t))}} : TRUE

\* smoothstep(t): c = Math.max(0, Math.min(1, t)); c * c * (3 - 2 * c)
smoothstep(t) ==
  CHOOSE r \in {DMul(DMul(c, c), DSub(Dec(3, 1), DMul(Dec(2, 1), c))) :
                  c \in {MathMax(Fin(0), MathMin(Fin(One), t))}} : TRUE

\* lerp(a, b, t): a + (b - a) * t
lerp(a, b, t) ==
  CHOOSE r \in {DAdd(x, DMul(DSub(b, x), t)) : x \in {a}} : TRUE

\* constants.ts
MORPH_DURATION == 800
DEFAULT_GRID_SIZE == 256
DEFAULT_SPECIES == "orbium"
DEFAULT_BRUSH_SIZE == Dec(3, 100)
MUTATION_MU_STEP == Dec(3, 1000)
MUTATION_SIGMA_STEP == Dec(1, 1000)
MUTATION_DT_STEP == Dec(5, 1000)
GROWTH_MU_RANGE == [min |-> Dec(1, 100), max |-> Dec(1, 2), fallback |-> Dec(15, 100)]
\* the sigma range reaching down to 0
GROWTH_SIGMA_RANGE_ZeroMin == [min |-> Fin(0), max |-> Dec(1, 10), fallback |-> Dec(15, 1000)]
GROWTH_SIGMA_RANGE == [min |-> Dec(1, 1000), max |-> Dec(1, 10), fallback |-> Dec(15, 1000)]
DT_RANGE == [min |-> Dec(1, 100), max |-> Dec(1, 2), fallback |-> Dec(1, 10)]

\* a preset's growth parameters and dt (the kernel is named by the id)
Preset(mu, sigma, d) == [growth |-> [mu |-> mu, sigma |-> sigma], dt |-> d]

\* the species catalog: growth and dt of each preset
SPECIES ==
  [orbium   |-> Preset(Dec(15, 100), Dec(15, 1000), Dec(1, 10)),
   geminium |-> Preset(Dec(14, 100), Dec(14, 1000), Dec(1, 10)),
   scutium  |-> Preset(Dec(16, 100), Dec(16, 1000), Dec(1, 10)),
   gyrium   |-> Preset(Dec(152, 1000), Dec(168, 10000), Dec(1, 10)),
   pentium  |-> Preset(Dec(17, 100), Dec(2, 100), Dec(1, 10)),
   bubbles  |-> Preset(Dec(21, 100), Dec(25, 1000), Dec(15, 100)),
   worms    |-> Preset(Dec(13, 100), Dec(13, 1000), Dec(8, 100)),
   genesis  |-> Preset(Dec(15, 100), Dec(35, 1000), Dec(1, 10)),
   amoeba   |-> Preset(Dec(18, 100), Dec(30, 1000), Dec(12, 100)),
   coral    |-> Preset(Dec(22, 100), Dec(18, 1000), Dec(1, 10))]

\* Object.keys(SPECIES), in catalog order
SPECIES_IDS ==
  <<"orbium", "geminium", "scutium", "gyrium", "pentium", "bubbles", "worms",
    "genesis", "amoeba", "coral">>

\* RESOLUTIONS
RESOLUTIONS == {256, 512}

\* ------------------------------------------------------------------------
\* The App and its canvas (App.tsx, LeniaCanvas.tsx).  The renderer's field is
\* kept here by what it was last reset to and what has been drawn on it since;
\* its cell values are the subject of Spec above.

\* Most handlers and timer callbacks run in one behaviour
MaxAppOps == 3

\* milliseconds between two animation frames of a morph
FrameDeltas == {400, 800}

\* ids the species selector passes to handleSpeciesChange
SpeciesInputs == {"geminium", "bubbles", "nosuch"}

\* values the sliders pass to their onChange callbacks
MuInputs == {NaN, Inf(1)}
SigmaInputs == {NaN, Fin(0)}
DtInputs == {NaN, Fin(0)}

\* Math.random(): the least and the greatest value it returns
RandomDraws == {Fin(0), Fin(One - Pow2(FracBits - SigBits))}

\* the field after clear(), after generateRandomState, with no edits yet
FieldCleared == [reset |-> "clear", stamps |-> {}, edits |-> 0]
FieldRandom == [reset |-> "random", stamps |-> {}, edits |-> 0]

\* a draw call on a lost context does nothing
Drawn(new, old) == IF contextLost THEN old ELSE new

\* renderer.stamp of the named pattern
Stamped(f, id) == [f EXCEPT !.stamps = @ \cup {id}]

\* growth state and the engine's refs
AppGrowth == <<growthMu, growthSigma, dt>>
Engine == <<growthRef.mu, growthRef.sigma, dtRef>>

\* the App after mounting and its boot timer (orbium stamped, running), with
\* the growth state at mu, sigma, d and mutation mode on or off
AppMounted(mu, sigma, d, mut) ==
  /\ RendererInit(2, 2) /\ KernelIdle /\ PopIdle /\ ClampIdle /\ MiscIdle
  /\ species = DEFAULT_SPECIES
  /\ growthMu = mu /\ growthSigma = sigma /\ dt = d
  /\ brushSize = DEFAULT_BRUSH_SIZE
  /\ tool = "draw"
  /\ gridSize = DEFAULT_GRID_SIZE
  /\ isRunning = TRUE
  /\ speed = Fin(One)
  /\ stepCount = 0
  /\ mutation = mut
  /\ mutationClosure =
       IF mut THEN [mu |-> mu, sigma |-> sigma, born |-> 0] ELSE <<>>
  /\ cinematic = FALSE /\ cinematicIdx = 0
  /\ morphRef = 0 /\ rafMorph = {}
  /\ effectPending = FALSE
  /\ growthRef = [mu |-> mu, sigma |-> sigma]
  /\ dtRef = d
  /\ rendererRef = TRUE /\ contextLost = FALSE /\ animPending = TRUE
  /\ stepRef = 0
  /\ kernelId = DEFAULT_SPECIES
  /\ fieldBase = Stamped(FieldCleared, DEFAULT_SPECIES)
  /\ fieldUpdates = 0
  /\ engineCall = [op |-> "none"] /\ lastAct = [op |-> "none"]
  /\ morphCount = 0 /\ resizeCount = 0 /\ appOps = 0

\* the growth state starts at the default species' preset
InitApp ==
  AppMounted(SPECIES[DEFAULT_SPECIES].growth.mu,
             SPECIES[DEFAULT_SPECIES].growth.sigma,
             SPECIES[DEFAULT_SPECIES].dt, FALSE)

\* the variables no App action touches
OthersIdle == UNCHANGED <<rvars, kvars, pvars, svars, mvars>>

\* one more handler has run
Counted == appOps < MaxAppOps /\ appOps' = appOps + 1

\* the advanced-params effect: canvas.setGrowth / setDt from the state
SyncEngine(mu, sigma, d) ==
  /\ growthRef' = [mu |-> mu, sigma |-> sigma]
  /\ dtRef' = d
  /\ effectPending' = FALSE

\* after a handler of a user event: the effect runs at once when the growth
\* state changed, and an effect still pending is flushed first
EffectAfterEvent(mu, sigma, d) ==
  IF <<mu, sigma, d>> # AppGrowth \/ effectPending
    THEN SyncEngine(mu, sigma, d)
    ELSE UNCHANGED <<growthRef, dtRef, effectPending>>

\* cancelAnimationFrame left out
CancelMorph_Keep(raf, ref) == raf

\* if (morphRef.current) cancelAnimationFrame(morphRef.current.animId)
CancelMorph(raf, ref) == {c \in raf : c.id # ref}

\* handleSpeciesChange(id)
HandleSpeciesChange(id) ==
  /\ id \in DOMAIN SPECIES
  /\ Counted
  /\ species' = id
  /\ morphCount' = morphCount + 1
  /\ morphRef' = morphCount + 1
  /\ rafMorph' = CancelMorph(rafMorph, morphRef) \cup
       {[id |-> morphCount + 1, start |-> AppGrowth, target |-> id,
         elapsed |-> 0, born |-> resizeCount]}
  /\ kernelId' = IF rendererRef THEN Drawn(id, kernelId) ELSE kernelId
  /\ EffectAfterEvent(growthMu, growthSigma, dt)
  /\ lastAct' = [op |-> "speciesChange", id |-> morphCount + 1]
  /\ UNCHANGED <<growthMu, growthSigma, dt, brushSize, tool, gridSize,
                 isRunning, speed, stepCount, mutation, mutationClosure,
                 cinematic, cinematicIdx, rendererRef, contextLost, animPending,
                 stepRef, engineCall, resizeCount, fieldBase, fieldUpdates>>
  /\ OthersIdle

\* rawT = Math.min(1, elapsed / MORPH_DURATION)
MorphRawT(elapsed) == MathMin(Fin(One), Dec(elapsed, MORPH_DURATION))

\* the morph ends at its first tick
MorphDone_AtOnce(rawT) == TRUE

\* !(rawT < 1)
MorphDone(rawT) == ~FGt(Fin(One), rawT)

\* mu, sigma, d of one tick
MorphValues(c, t) ==
  CHOOSE r \in {<<lerp(c.start[1], SPECIES[c.target].growth.mu, b),
                  lerp(c.start[2], SPECIES[c.target].growth.sigma, b),
                  lerp(c.start[3], SPECIES[c.target].dt, b)>> : b \in {t}} : TRUE

\* the morph's animate callback, delta ms after the previous one
MorphAnimate(delta) ==
  \E c \in rafMorph :
  \E elapsed \in {c.elapsed + delta} :
  \E rawT \in {MorphRawT(elapsed)} :
  \E val \in {MorphValues(c, smoothstep(rawT))} :
       /\ growthMu' = val[1] /\ growthSigma' = val[2] /\ dt' = val[3]
       /\ SyncEngine(val[1], val[2], val[3])
       /\ IF MorphDone(rawT)
            THEN rafMorph' = rafMorph \ {c} /\ morphRef' = 0
            ELSE /\ rafMorph' = (rafMorph \ {c}) \cup {[c EXCEPT !.elapsed = elapsed]}
                 /\ UNCHANGED morphRef
       /\ lastAct' = [op |-> "animate", id |-> c.id, born |-> c.born,
                      start |-> c.start, target |-> c.target,
                      done |-> MorphDone(rawT), before |-> Engine]
       /\ UNCHANGED <<species, brushSize, tool, gridSize, isRunning, speed,
                      stepCount, mutation, mutationClosure, cinematic,
                      cinematicIdx, rendererRef, contextLost, animPending,
                      stepRef, engineCall, morphCount, resizeCount, kernelId,
                      fieldBase, fieldUpdates, appOps>>
       /\ OthersIdle

\* safeSetGrowthMu(v)
SafeSetGrowthMu(v) ==
  LET mu == safeClamp(v, GROWTH_MU_RANGE.min, GROWTH_MU_RANGE.max,
                      GROWTH_MU_RANGE.fallback)
  IN /\ Counted
     /\ growthMu' = mu
     /\ EffectAfterEvent(mu, growthSigma, dt)
     /\ lastAct' = [op |-> "safeSetGrowthMu"]
     /\ UNCHANGED <<species, growthSigma, dt, brushSize, tool, gridSize,
                    isRunning, speed, stepCount, mutation, mutationClosure,
                    cinematic, cinematicIdx, morphRef, rafMorph, rendererRef,
                    contextLost, animPending, stepRef, engineCall, morphCount,
                    resizeCount, kernelId, fieldBase, fieldUpdates>>
     /\ OthersIdle

\* safeSetGrowthSigma(v)
SafeSetGrowthSigma(v) ==
  LET sigma == safeClamp(v, GROWTH_SIGMA_RANGE.min, GROWTH_SIGMA_RANGE.max,
                         GROWTH_SIGMA_RANGE.fallback)
  IN /\ Counted
     /\ growthSigma' = sigma
     /\ EffectAfterEvent(growthMu, sigma, dt)
     /\ lastAct' = [op |-> "safeSetGrowthSigma"]
     /\ UNCHANGED <<species, growthMu, dt, brushSize, tool, gridSize,
                    isRunning, speed, stepCount, mutation, mutationClosure,
                    cinematic, cinematicIdx, morphRef, rafMorph, rendererRef,
                    contextLost, animPending, stepRef, engineCall, morphCount,
                    resizeCount, kernelId, fieldBase, fieldUpdates>>
     /\ OthersIdle

\* safeSetDt(v)
SafeSetDt(v) ==
  LET d == safeClamp(v, DT_RANGE.min, DT_RANGE.max, DT_RANGE.fallback)
  IN /\ Counted
     /\ dt' = d
     /\ EffectAfterEvent(growthMu, growthSigma, d)
     /\ lastAct' = [op |-> "safeSetDt"]
     /\ UNCHANGED <<species, growthMu, growthSigma, brushSize, tool, gridSize,
                    isRunning, speed, stepCount, mutation, mutationClosure,
                    cinematic, cinematicIdx, morphRef, rafMorph, rendererRef,
                    contextLost, animPending, stepRef, engineCall, morphCount,
                    resizeCount, kernelId, fieldBase, fieldUpdates>>
     /\ OthersIdle

\* handleMutationToggle; the mutation effect then closes over the growth state
\* of the render that turned the mode on
HandleMutationToggle ==
  /\ Counted
  /\ mutation' = ~mutation
  /\ mutationClosure' =
       IF ~mutation
         THEN [mu |-> growthMu, sigma |-> growthSigma, born |-> resizeCount]
         ELSE <<>>
  /\ EffectAfterEvent(growthMu, growthSigma, dt)
  /\ lastAct' = [op |-> "mutationToggle"]
  /\ UNCHANGED <<species, growthMu, growthSigma, dt, brushSize, tool, gridSize,
                 isRunning, speed, stepCount, cinematic, cinematicIdx, morphRef,
                 rafMorph, rendererRef, contextLost, animPending, stepRef,
                 engineCall, morphCount, resizeCount, kernelId, fieldBase,
                 fieldUpdates>>
  /\ OthersIdle

\* the walk without the clamp
MutationNext_NoClamp(prev, r, step, range) ==
  DAdd(prev, DMul(DMul(DSub(r, Dec(1, 2)), Dec(2, 1)), step))

\* next = prev + (Math.random() - 0.5) * 2 * STEP, clamped to the range
MutationNext(prev, r, step, range) ==
  MathMax(range.min, MathMin(range.max,
    DAdd(prev, DMul(DMul(DSub(r, Dec(1, 2)), Dec(2, 1)), step))))

\* the mutation interval's callback: the three updaters run in order, each
\* calling the canvas with the other value as the effect's closure holds it
MutationTick(rm, rs, rd) ==
  LET mu == MutationNext(growthMu, rm, MUTATION_MU_STEP, GROWTH_MU_RANGE)
      sigma == MutationNext(growthSigma, rs, MUTATION_SIGMA_STEP, GROWTH_SIGMA_RANGE)
      d == MutationNext(dt, rd, MUTATION_DT_STEP, DT_RANGE)
  IN /\ mutation
     /\ Counted
     /\ growthMu' = mu /\ growthSigma' = sigma /\ dt' = d
     /\ growthRef' = [mu |-> mutationClosure.mu, sigma |-> sigma]
     /\ dtRef' = d
     /\ effectPending' = (effectPending \/ <<mu, sigma, d>> # AppGrowth)
     /\ lastAct' = [op |-> "mutationTick", born |-> mutationClosure.born,
                    from |-> AppGrowth, before |-> Engine]
     /\ UNCHANGED <<species, brushSize, tool, gridSize, isRunning, speed,
                    stepCount, mutation, mutationClosure, cinematic,
                    cinematicIdx, morphRef, rafMorph, rendererRef, contextLost,
                    animPending, stepRef, engineCall, morphCount, resizeCount,
                    kernelId, fieldBase, fieldUpdates>>
     /\ OthersIdle

\* the advanced-params effect of a render that a timer caused, run later
EffectFlush ==
  /\ effectPending
  /\ SyncEngine(growthMu, growthSigma, dt)
  /\ lastAct' = [op |-> "effect"]
  /\ UNCHANGED <<species, growthMu, growthSigma, dt, brushSize, tool, gridSize,
                 isRunning, speed, stepCount, mutation, mutationClosure,
                 cinematic, cinematicIdx, morphRef, rafMorph, rendererRef,
                 contextLost, animPending, stepRef, engineCall, morphCount,
                 resizeCount, kernelId, fieldBase, fieldUpdates, appOps>>
  /\ OthersIdle

\* canvas.clear(): renderer.clear(), stepRef = 0, onStepUpdate(0)
CanvasClear ==
  /\ fieldBase' = IF rendererRef THEN Drawn(FieldCleared, fieldBase) ELSE fieldBase
  /\ fieldUpdates' = IF rendererRef THEN Drawn(0, fieldUpdates) ELSE fieldUpdates
  /\ stepRef' = 0
  /\ stepCount' = 0

\* handlePetriDish: clear, genesis parameters, a few creatures, run
HandlePetriDish ==
  LET genesis == SPECIES["genesis"]
  IN /\ Counted
     /\ stepRef' = 0 /\ stepCount' = 0
     /\ fieldUpdates' = IF rendererRef THEN Drawn(0, fieldUpdates) ELSE fieldUpdates
     /\ fieldBase' = IF rendererRef
                       THEN Drawn(Stamped(FieldCleared, "petri"), fieldBase)
                       ELSE fieldBase
     /\ species' = "genesis"
     /\ dt' = genesis.dt
     /\ growthMu' = genesis.growth.mu
     /\ growthSigma' = genesis.growth.sigma
     /\ kernelId' = IF rendererRef THEN Drawn("genesis", kernelId) ELSE kernelId
     /\ SyncEngine(genesis.growth.mu, genesis.growth.sigma, genesis.dt)
     /\ isRunning' = TRUE
     /\ lastAct' = [op |-> "petriDish"]
     /\ UNCHANGED <<brushSize, tool, gridSize, speed, mutation, mutationClosure,
                    cinematic, cinematicIdx, morphRef, rafMorph, rendererRef,
                    contextLost, animPending, engineCall, morphCount,
                    resizeCount>>
     /\ OthersIdle

\* the index left where it was
CinematicNextIdx_Same(idx) == idx

\* cinematicIdxRef.current = idx + 1
CinematicNextIdx(idx) == idx + 1

\* placeSpecies of the cinematic effect
PlaceSpecies ==
  LET idx == cinematicIdx % Len(SPECIES_IDS)
      id == SPECIES_IDS[idx + 1]
      sp == SPECIES[id]
  IN /\ cinematicIdx' = CinematicNextIdx(idx)
     /\ species' = id
     /\ dt' = sp.dt
     /\ growthMu' = sp.growth.mu
     /\ growthSigma' = sp.growth.sigma
     /\ stepRef' = 0 /\ stepCount' = 0
     /\ fieldUpdates' = IF rendererRef THEN Drawn(0, fieldUpdates) ELSE fieldUpdates
     /\ fieldBase' = IF rendererRef
                       THEN Drawn(Stamped(FieldCleared, id), fieldBase)
                       ELSE fieldBase
     /\ kernelId' = IF rendererRef THEN Drawn(id, kernelId) ELSE kernelId
     /\ SyncEngine(sp.growth.mu, sp.growth.sigma, sp.dt)
     /\ isRunning' = TRUE

\* handleCinematicToggle; turning the mode on runs the effect, which places
\* the first species at once
CinematicToggled ==
  /\ cinematic' = ~cinematic
  /\ IF ~cinematic
       THEN PlaceSpecies
       ELSE /\ EffectAfterEvent(growthMu, growthSigma, dt)
            /\ UNCHANGED <<cinematicIdx, species, dt, growthMu, growthSigma,
                           stepRef, stepCount, fieldUpdates, fieldBase,
                           kernelId, isRunning>>
  /\ lastAct' = [op |-> "cinematicToggle"]
  /\ UNCHANGED <<brushSize, tool, gridSize, speed, mutation, mutationClosure,
                 morphRef, rafMorph, rendererRef, contextLost, animPending,
                 engineCall, morphCount, resizeCount>>

HandleCinematicToggle == Counted /\ CinematicToggled /\ OthersIdle

\* the cinematic interval's callback
CinematicPlaced ==
  /\ cinematic
  /\ PlaceSpecies
  /\ lastAct' = [op |-> "cinematicTick"]
  /\ UNCHANGED <<cinematic, brushSize, tool, gridSize, speed, mutation,
                 mutationClosure, morphRef, rafMorph, rendererRef, contextLost,
                 animPending, engineCall, morphCount, resizeCount>>

CinematicTick == Counted /\ CinematicPlaced /\ OthersIdle

\* values the grid selector, the brush slider and the speed slider pass
BrushSizeInputs == {NaN, Dec(5, 1)}
SpeedInputs == {Dec(4, 10), Dec(25, 10)}

\* handleGridResize(size): canvas.resize on the old renderer, and, when the
\* size changed, LeniaCanvas's init effect: the old renderer is destroyed and
\* a new one is built from the selected species' preset, cleared and stamped.
\* On a lost context the constructor throws and no renderer is left.
HandleGridResize(size) ==
  LET reinit == size # gridSize
      built == reinit /\ ~contextLost
  IN /\ Counted
     /\ gridSize' = size
     /\ resizeCount' = resizeCount + 1
     /\ stepRef' = IF rendererRef THEN 0 ELSE stepRef
     /\ stepCount' = 0
     /\ rendererRef' = IF reinit THEN ~contextLost ELSE rendererRef
     /\ fieldBase' = IF built THEN Stamped(FieldCleared, "orbium")
                     ELSE IF rendererRef THEN Drawn(FieldRandom, fieldBase)
                     ELSE fieldBase
     /\ fieldUpdates' = IF built THEN 0
                        ELSE IF rendererRef THEN Drawn(0, fieldUpdates)
                        ELSE fieldUpdates
     /\ kernelId' = IF built THEN species
                    ELSE IF rendererRef THEN Drawn(species, kernelId)
                    ELSE kernelId
     /\ IF built
          THEN /\ growthRef' = SPECIES[species].growth
               /\ dtRef' = SPECIES[species].dt
               /\ effectPending' = FALSE
          ELSE EffectAfterEvent(growthMu, growthSigma, dt)
     /\ lastAct' = [op |-> "gridResize"]
     /\ UNCHANGED <<species, growthMu, growthSigma, dt, brushSize, tool,
                    isRunning, speed, mutation, mutationClosure, cinematic,
                    cinematicIdx, morphRef, rafMorph, contextLost, animPending,
                    engineCall, morphCount>>
     /\ OthersIdle

\* rounding towards zero in place of Math.round
MathRound_Floor(a) ==
  IF IsFinite(a) THEN Fin((a.v \div One) * One) ELSE a

\* Math.round: the nearest integer, halves upwards
MathRound(a) ==
  IF IsFinite(a) THEN Fin(((2 * a.v + One) \div (2 * One)) * One) ELSE a

\* stepsPerFrame = Math.max(1, Math.round(speedRef.current)), as a loop count
StepsPerFrame(s) ==
  LET n == MathMax(Fin(One), MathRound(s))
  IN IF IsFinite(n) THEN n.v \div One ELSE 0

\* LeniaCanvas animate: one frame of the loop
Animate ==
  /\ animPending
  /\ Counted
  /\ IF ~contextLost /\ rendererRef /\ isRunning
       THEN LET n == StepsPerFrame(speed)
            IN /\ stepRef' = stepRef + n
               /\ stepCount' = stepRef + n
               /\ fieldUpdates' = fieldUpdates + n
               /\ engineCall' = [op |-> "step", growth |-> growthRef,
                                 dt |-> dtRef, n |-> n]
       ELSE UNCHANGED <<stepRef, stepCount, fieldUpdates, engineCall>>
  /\ lastAct' = [op |-> "frame", before |-> stepRef]
  /\ UNCHANGED <<species, growthMu, growthSigma, dt, brushSize, tool, gridSize,
                 isRunning, speed, mutation, mutationClosure, cinematic,
                 cinematicIdx, morphRef, rafMorph, effectPending, growthRef,
                 dtRef, rendererRef, contextLost, animPending, morphCount,
                 resizeCount, kernelId, fieldBase>>
  /\ OthersIdle

\* canvas.singleStep(), from the Step button
SingleStep ==
  /\ Counted
  /\ IF rendererRef
       THEN /\ stepRef' = stepRef + 1
            /\ stepCount' = stepRef + 1
            /\ fieldUpdates' = Drawn(fieldUpdates + 1, fieldUpdates)
            /\ engineCall' = [op |-> "step", growth |-> growthRef,
                              dt |-> dtRef, n |-> 1]
       ELSE UNCHANGED <<stepRef, stepCount, fieldUpdates, engineCall>>
  /\ lastAct' = [op |-> "singleStep", before |-> stepRef]
  /\ UNCHANGED <<species, growthMu, growthSigma, dt, brushSize, tool, gridSize,
                 isRunning, speed, mutation, mutationClosure, cinematic,
                 cinematicIdx, morphRef, rafMorph, effectPending, growthRef,
                 dtRef, rendererRef, contextLost, animPending, morphCount,
                 resizeCount, kernelId, fieldBase>>
  /\ OthersIdle

\* handleClear: canvas.clear() and setStepCount(0)
HandleClear ==
  /\ Counted
  /\ CanvasClear
  /\ lastAct' = [op |-> "clear", before |-> stepRef]
  /\ UNCHANGED <<species, growthMu, growthSigma, dt, brushSize, tool, gridSize,
                 isRunning, speed, mutation, mutationClosure, cinematic,
                 cinematicIdx, morphRef, rafMorph, effectPending, growthRef,
                 dtRef, rendererRef, contextLost, animPending, engineCall,
                 morphCount, resizeCount, kernelId>>
  /\ OthersIdle

\* onSpeedChange = setSpeed
SetSpeed(v) ==
  /\ Counted
  /\ speed' = v
  /\ lastAct' = [op |-> "setSpeed"]
  /\ UNCHANGED <<species, growthMu, growthSigma, dt, brushSize, tool, gridSize,
                 isRunning, stepCount, mutation, mutationClosure, cinematic,
                 cinematicIdx, morphRef, rafMorph, effectPending, growthRef,
                 dtRef, rendererRef, contextLost, animPending, stepRef,
                 engineCall, morphCount, resizeCount, kernelId, fieldBase,
                 fieldUpdates>>
  /\ OthersIdle

\* handleToggleRun
HandleToggleRun ==
  /\ Counted
  /\ isRunning' = ~isRunning
  /\ lastAct' = [op |-> "toggleRun"]
  /\ UNCHANGED <<species, growthMu, growthSigma, dt, brushSize, tool, gridSize,
                 speed, stepCount, mutation, mutationClosure, cinematic,
                 cinematicIdx, morphRef, rafMorph, effectPending, growthRef,
                 dtRef, rendererRef, contextLost, animPending, stepRef,
                 engineCall, morphCount, resizeCount, kernelId, fieldBase,
                 fieldUpdates>>
  /\ OthersIdle

\* onBrushSizeChange = setBrushSize
SetBrushSize(v) ==
  /\ Counted
  /\ brushSize' = v
  /\ lastAct' = [op |-> "setBrushSize"]
  /\ UNCHANGED <<species, growthMu, growthSigma, dt, tool, gridSize, isRunning,
                 speed, stepCount, mutation, mutationClosure, cinematic,
                 cinematicIdx, morphRef, rafMorph, effectPending, growthRef,
                 dtRef, rendererRef, contextLost, animPending, stepRef,
                 engineCall, morphCount, resizeCount, kernelId, fieldBase,
                 fieldUpdates>>
  /\ OthersIdle

\* applyBrush(uvX, uvY): a brush or a stamp call on the renderer
BrushApplied ==
  /\ IF rendererRef
       THEN IF tool = "stamp"
              THEN /\ fieldBase' =
                        Drawn([Stamped(fieldBase, "orbium") EXCEPT !.edits = @ + 1],
                              fieldBase)
                   /\ engineCall' = [op |-> "stamp"]
              ELSE /\ fieldBase' = Drawn([fieldBase EXCEPT !.edits = @ + 1], fieldBase)
                   /\ engineCall' =
                        [op |-> "brush", radius |-> brushSize,
                         value |-> IF tool = "draw" THEN Fin(One) ELSE Fin(-One),
                         strength |-> IF tool = "draw" THEN Dec(4, 10) ELSE Dec(6, 10)]
       ELSE UNCHANGED <<fieldBase, engineCall>>
  /\ UNCHANGED <<species, growthMu, growthSigma, dt, brushSize, tool, gridSize,
                 isRunning, speed, stepCount, mutation, mutationClosure,
                 cinematic, cinematicIdx, morphRef, rafMorph, effectPending,
                 growthRef, dtRef, rendererRef, contextLost, animPending,
                 stepRef, morphCount, resizeCount, kernelId, fieldUpdates>>

\* a pointer press or drag on the canvas, as the App-level models see it
ApplyBrush ==
  /\ Counted
  /\ BrushApplied
  /\ lastAct' = [op |-> "applyBrush"]
  /\ OthersIdle

\* the field of a context that was lost
FieldLost == [reset |-> "lost", stamps |-> {}, edits |-> 0]

\* handleContextLost: the flag is set and the pending frame is cancelled
ContextLost ==
  /\ ~contextLost
  /\ Counted
  /\ contextLost' = TRUE
  /\ animPending' = FALSE
  /\ fieldBase' = FieldLost
  /\ kernelId' = ""
  /\ lastAct' = [op |-> "contextLost"]
  /\ UNCHANGED <<species, growthMu, growthSigma, dt, brushSize, tool, gridSize,
                 isRunning, speed, stepCount, mutation, mutationClosure,
                 cinematic, cinematicIdx, morphRef, rafMorph, effectPending,
                 growthRef, dtRef, rendererRef, stepRef, engineCall, morphCount,
                 resizeCount, fieldUpdates>>
  /\ OthersIdle

\* handleContextRestored: a new renderer with the selected species' kernel,
\* growth and dt and a random field
ContextRestored ==
  /\ contextLost
  /\ Counted
  /\ contextLost' = FALSE
  /\ rendererRef' = TRUE
  /\ kernelId' = species
  /\ growthRef' = SPECIES[species].growth
  /\ dtRef' = SPECIES[species].dt
  /\ fieldBase' = FieldRandom
  /\ lastAct' = [op |-> "contextRestored"]
  /\ UNCHANGED <<species, growthMu, growthSigma, dt, brushSize, tool, gridSize,
                 isRunning, speed, stepCount, mutation, mutationClosure,
                 cinematic, cinematicIdx, morphRef, rafMorph, effectPending,
                 animPending, stepRef, engineCall, morphCount, resizeCount,
                 fieldUpdates>>
  /\ OthersIdle

\* the App with its parameter handlers, timers and the frame loop
NextApp ==
  \/ \E id \in SpeciesInputs : HandleSpeciesChange(id)
  \/ \E delta \in FrameDeltas : MorphAnimate(delta)
  \/ \E v \in MuInputs : SafeSetGrowthMu(v)
  \/ \E v \in SigmaInputs : SafeSetGrowthSigma(v)
  \/ \E v \in DtInputs : SafeSetDt(v)
  \/ HandleMutationToggle
  \/ \E rm, rs, rd \in RandomDraws : MutationTick(rm, rs, rd)
  \/ EffectFlush
  \/ HandlePetriDish
  \/ HandleCinematicToggle
  \/ CinematicTick
  \/ \E size \in RESOLUTIONS : HandleGridResize(size)
  \/ Animate
  \/ \E v \in BrushSizeInputs : SetBrushSize(v)
  \/ ApplyBrush

SpecApp == InitApp /\ [][NextApp]_vars

\* species transitions with what can run between their ticks without a
\* cancel: the Petri dish and a grid resize
NextMorph ==
  \/ \E id \in SpeciesInputs : HandleSpeciesChange(id)
  \/ \E delta \in FrameDeltas : MorphAnimate(delta)
  \/ HandlePetriDish
  \/ \E size \in RESOLUTIONS : HandleGridResize(size)

SpecMorph == InitApp /\ [][NextMorph]_vars

\* the browser runs every animation-frame callback that stays requested
SpecMorphFair == SpecMorph /\ WF_vars(\E delta \in FrameDeltas : MorphAnimate(delta))

\* the canvas: frame loop, step button, clear, resize, context loss
NextCanvas ==
  \/ Animate
  \/ SingleStep
  \/ HandleClear
  \/ \E size \in RESOLUTIONS : HandleGridResize(size)
  \/ \E v \in SpeedInputs : SetSpeed(v)
  \/ HandleToggleRun
  \/ ApplyBrush
  \/ ContextLost
  \/ ContextRestored

SpecCanvas == InitApp /\ [][NextCanvas]_vars

\* ------------------------------------------------------------------------
\* Claims about the App's parameters

\* C11: the growth width sigma and the time step dt that reach the engine's
\* step are never zero and never NaN: the refs step reads them from, and the
\* arguments of every step call made, satisfy sigma > 0 and dt > 0, after any
\* slider change, species switch and morph tick, mutation tick, Petri-dish
\* or cinematic action.
C11_StepSigmaDtPositive ==
  /\ FGt(growthRef.sigma, Fin(0))
  /\ FGt(dtRef, Fin(0))
  /\ engineCall.op = "step" =>
       /\ FGt(engineCall.growth.sigma, Fin(0))
       /\ FGt(engineCall.dt, Fin(0))

\* a frame stepped the field after the sigma and dt sliders were both set to 0
C11_Witness ==
  /\ engineCall.op = "step"
  /\ lastAct.op = "frame"
  /\ engineCall.growth.sigma = GROWTH_SIGMA_RANGE.min
  /\ engineCall.dt = DT_RANGE.min


\* the brush slider's range: min="0.01" max="0.15"
BrushSizeRange == [min |-> Dec(1, 100), max |-> Dec(15, 100)]

\* v is a number of the range
InRange(v, range) == FLe(range.min, v) /\ FLe(v, range.max)

\* C12: every externally settable number that reaches the engine is clamped
\* to its safe range, with the fallback in place of NaN: every step call gets
\* mu, sigma and dt inside their ranges, and every brush call gets a radius
\* inside the brush slider's range and a strength in [0, 1].
C12_EngineInputsClamped ==
  /\ engineCall.op = "step" =>
       /\ InRange(engineCall.growth.mu, GROWTH_MU_RANGE)
       /\ InRange(engineCall.growth.sigma, GROWTH_SIGMA_RANGE)
       /\ InRange(engineCall.dt, DT_RANGE)
  /\ engineCall.op = "brush" =>
       /\ InRange(engineCall.radius, BrushSizeRange)
       /\ InRange(engineCall.strength, [min |-> Fin(0), max |-> Fin(One)])


\* ------------------------------------------------------------------------
\* Mutation mode on its own: the walk from the ends and the fallback of each
\* range, where the sliders put the growth state (0, Infinity and NaN are
\* clamped to them), with mutation mode just turned on

\* the ends of a range and its fallback
RangePoints(range) == {range.min, range.fallback, range.max}

InitMutation ==
  \E mu \in RangePoints(GROWTH_MU_RANGE), sigma \in RangePoints(GROWTH_SIGMA_RANGE),
     d \in RangePoints(DT_RANGE) :
    AppMounted(mu, sigma, d, TRUE)

NextMutation ==
  \/ \E rm, rs, rd \in RandomDraws : MutationTick(rm, rs, rd)
  \/ EffectFlush
  \/ Animate

SpecMutation == InitMutation /\ [][NextMutation]_vars

\* the spacing of the representable numbers at v
Ulp(v) == Pow2(Max(BitLen(Abs(v.v)) - SigBits, 0))

\* |a - b| <= step, up to the rounding of the sum
WithinStep(a, b, step) == Abs(a.v - b.v) <= step.v + Ulp(b)

\* C13: in mutation mode mu, sigma and dt each walk by at most
\* MUTATION_*_STEP per tick (up to the rounding of the sum) and are clamped
\* after every step: starting from in-range values, after every tick the
\* growth state and the values the engine holds have mu in [0.01, 0.5],
\* sigma in [0.001, 0.1] and dt in [0.01, 0.5].
C13_MutationWalkInRange ==
  /\ InRange(growthMu, GROWTH_MU_RANGE)
  /\ InRange(growthSigma, GROWTH_SIGMA_RANGE)
  /\ InRange(dt, DT_RANGE)
  /\ InRange(growthRef.mu, GROWTH_MU_RANGE)
  /\ InRange(growthRef.sigma, GROWTH_SIGMA_RANGE)
  /\ InRange(dtRef, DT_RANGE)
  /\ lastAct.op = "mutationTick" =>
       /\ WithinStep(growthMu, lastAct.from[1], MUTATION_MU_STEP)
       /\ WithinStep(growthSigma, lastAct.from[2], MUTATION_SIGMA_STEP)
       /\ WithinStep(dt, lastAct.from[3], MUTATION_DT_STEP)

\* a tick pushed mu down at its minimum and sigma up at its maximum, and both
\* stayed there, after an earlier tick had moved dt off its starting point
C13_Witness ==
  /\ lastAct.op = "mutationTick"
  /\ appOps >= 2
  /\ lastAct.from[1] = GROWTH_MU_RANGE.min /\ growthMu = GROWTH_MU_RANGE.min
  /\ lastAct.from[2] = GROWTH_SIGMA_RANGE.max /\ growthSigma = GROWTH_SIGMA_RANGE.max
  /\ dt \notin RangePoints(DT_RANGE)


\* C14: switching species while a transition is still interpolating cancels
\* it and starts a new one from the live values: the only callback left
\* pending is the new morph's, its start values are the growth state at the
\* moment of the switch (what the cancelled morph last wrote), and every
\* morph tick that runs belongs to the morph started last.
C14_SwitchCancelsAndRestartsFromLive ==
  [][/\ (morphCount' # morphCount /\ morphRef # 0) =>
          /\ rafMorph' # {}
          /\ \A c \in rafMorph' :
               /\ c.id = morphCount'
               /\ c.start = <<growthMu, growthSigma, dt>>
               /\ c.elapsed = 0
     /\ (\E delta \in FrameDeltas : MorphAnimate(delta)) =>
          \A c \in rafMorph : c.id = morphCount]_vars

\* two switches and nothing else: the second came after one tick of the
\* first morph, and the second morph starts from the half-blended values
C14_Witness ==
  /\ appOps = 2 /\ morphCount = 2
  /\ lastAct.op = "speciesChange"
  /\ \E c \in rafMorph, first \in DOMAIN SPECIES :
       /\ c.id = 2
       /\ first # DEFAULT_SPECIES
       /\ c.start = MorphValues([start |-> <<SPECIES[DEFAULT_SPECIES].growth.mu,
                                            SPECIES[DEFAULT_SPECIES].growth.sigma,
                                            SPECIES[DEFAULT_SPECIES].dt>>,
                                 target |-> first],
                                smoothstep(MorphRawT(400)))
       /\ c.start[1] # SPECIES[DEFAULT_SPECIES].growth.mu
       /\ c.start[1] # SPECIES[first].growth.mu


\* the preset's (mu, sigma, dt)
PresetValues(id) == <<SPECIES[id].growth.mu, SPECIES[id].growth.sigma, SPECIES[id].dt>>

\* a is b up to the rounding of from + (b - from)
WithinRounding(a, b, from) == Abs(a.v - b.v) <= Max(Ulp(from), Ulp(b))

\* the last handler to run was the final tick of a morph
MorphJustDone == lastAct.op = "animate" /\ lastAct.done

\* every morph is cancelled by a later switch or runs its final tick
MorphsEnd ==
  \A m \in 1..MaxAppOps :
    (morphRef = m) ~> (morphRef = 0 \/ morphCount > m)

-----------------------------------------------------------------------------
\* Grid resize against transitions and walks in flight

\* the last handler was a tick of a morph or of a mutation walk that was
\* started before the latest grid resize
StaleTick ==
  /\ lastAct.op \in {"animate", "mutationTick"}
  /\ lastAct.born < resizeCount

\* C16: after handleGridResize no tick of a parameter interpolation or of a
\* mutation walk that was started before the resize modifies the engine's
\* growth parameters or dt.
C16_ResizeDiscardsInFlight == StaleTick => Engine = lastAct.before


-----------------------------------------------------------------------------
\* The canvas interface while the context is lost, and the step counter

\* C17: between the loss of the GPU context and its restoration every call
\* on the canvas interface is a no-op: it changes neither the field nor the
\* step counter the canvas keeps and reports to the App.
C17_LostContextCallsAreNoOps ==
  [][(contextLost /\ contextLost') =>
       UNCHANGED <<fieldBase, fieldUpdates, stepRef, stepCount>>]_vars

IsStepsFor(n, s) ==
  \/ n = 1 /\ 2 * s.v < 3 * One
  \/ n > 1 /\ (2 * n - 1) * One <= 2 * s.v /\ 2 * s.v < (2 * n + 1) * One

\* the context is live and a renderer exists, before and after the handler
LiveStep == ~contextLost /\ ~contextLost' /\ rendererRef /\ rendererRef'

\* the counter and the field's update count move by n together
BothAdvance(n) ==
  /\ stepRef' = stepRef + n
  /\ fieldUpdates' = fieldUpdates + n
  /\ stepCount' = stepRef'

-----------------------------------------------------------------------------
\* The morph blend as a function of two presets and t

\* t runs over k / BlendSteps, k = 0 .. BlendSteps
BlendSteps == 8

\* a blend is about to be computed for presets a and b at time fraction t
InitBlend ==
  /\ RendererInit(2, 2) /\ KernelIdle /\ AppIdle /\ PopIdle /\ ClampIdle
  /\ frag = [pc |-> "idle"] /\ PerfIdle /\ tour = <<>> /\ isDrawing = FALSE
  /\ pointerDown = FALSE
  /\ \E a \in DOMAIN SPECIES, b \in DOMAIN SPECIES, k \in 0..BlendSteps :
       blend = [pc |-> "call", a |-> a, b |-> b, t |-> Dec(k, BlendSteps)]

\* mu, sigma and dt as lerp(a, b, smoothstep(t))
BlendReturn ==
  /\ blend.pc = "call"
  /\ blend' = [pc |-> "done", a |-> blend.a, b |-> blend.b, t |-> blend.t,
               out |-> MorphValues([start |-> PresetValues(blend.a),
                                    target |-> blend.b],
                                   smoothstep(blend.t))]
  /\ UNCHANGED <<rvars, kvars, avars, pvars, svars, frag, qvars, hvars>>

NextBlend == BlendReturn

SpecBlend == InitBlend /\ [][NextBlend]_vars

\* C21: every preset's mu, sigma and dt lie in their safe ranges, and so do
\* lerp(a, b, smoothstep(t)) of any two presets for every t in [0, 1].
C21_BlendStaysInRange ==
  /\ \A id \in DOMAIN SPECIES :
       /\ InRange(SPECIES[id].growth.mu, GROWTH_MU_RANGE)
       /\ InRange(SPECIES[id].growth.sigma, GROWTH_SIGMA_RANGE)
       /\ InRange(SPECIES[id].dt, DT_RANGE)
  /\ blend.pc = "done" =>
       /\ InRange(blend.out[1], GROWTH_MU_RANGE)
       /\ InRange(blend.out[2], GROWTH_SIGMA_RANGE)
       /\ InRange(blend.out[3], DT_RANGE)

\* bubbles has been blended half way into worms: dt lies strictly between
\* the two presets' values
C21_Witness ==
  /\ blend.pc = "done" /\ blend.a = "bubbles" /\ blend.b = "worms"
  /\ blend.t = Dec(1, 2)
  /\ FGt(blend.out[3], SPECIES["worms"].dt)
  /\ FGt(SPECIES["bubbles"].dt, blend.out[3])


-----------------------------------------------------------------------------
\* Stamp and brush as edits of the field

\* the v_uv of cell i
CellU(i) == UVof(CellX(i, gridWidth), gridWidth)
CellV(i) == UVof(CellY(i, gridWidth), gridHeight)

\* cell i lies in the box centred at (x, y) with extent scale
InStampBox(i, x, y, scale) ==
  /\ 2 * Abs(CellU(i) - x) <= scale
  /\ 2 * Abs(CellV(i) - y) <= scale

\* the pattern's value at cell i of a stamp call
PatternValue(i, in) ==
  SampleStamp(in.pattern.data, in.pattern.size,
              StampUV(CellU(i), in.x, in.scale), StampUV(CellV(i), in.y, in.scale))

\* C22: stamp leaves every cell outside the pattern's box unchanged, makes
\* every cell inside it max(cell, patternValue), and decreases no cell.
C22_StampIsMaxBlendInBox ==
  lastOp.op = "stamp" =>
    \A i \in DOMAIN CurrentField :
      /\ IF InStampBox(i, lastOp.in.x, lastOp.in.y, lastOp.in.scale)
           THEN CurrentField[i] = Max(prevField[i], PatternValue(i, lastOp.in))
           ELSE CurrentField[i] = prevField[i]
      /\ CurrentField[i] >= prevField[i]

\* a stamp on a 4 x 4 field of 0.5 raised one cell of the box, left another
\* cell of the box at its larger value, and left a cell outside alone
C22_Witness ==
  /\ lastOp.op = "stamp" /\ gridWidth = 4
  /\ \E i, j, k \in DOMAIN CurrentField :
       /\ InStampBox(i, lastOp.in.x, lastOp.in.y, lastOp.in.scale)
       /\ CurrentField[i] > prevField[i]
       /\ InStampBox(j, lastOp.in.x, lastOp.in.y, lastOp.in.scale)
       /\ PatternValue(j, lastOp.in) < prevField[j]
       /\ CurrentField[j] = prevField[j]
       /\ ~InStampBox(k, lastOp.in.x, lastOp.in.y, lastOp.in.scale)
       /\ CurrentField[k] = prevField[k] /\ prevField[k] > 0


\* the squared distance of cell i's centre from (x, y)
DistSq(i, x, y) ==
  (CellU(i) - x) * (CellU(i) - x) + (CellV(i) - y) * (CellV(i) - y)

\* what a brush call did to each cell: nothing at distance >= radius, the
\* full sign * strength (clamped) within 0.3 * radius, and no change against
\* the sign anywhere
BrushEffect ==
  LET in == lastOp.in
      full == (3 * in.radius) \div 10
  IN \A i \in DOMAIN CurrentField :
       /\ DistSq(i, in.x, in.y) >= in.radius * in.radius
            => CurrentField[i] = prevField[i]
       /\ DistSq(i, in.x, in.y) <= full * full
            => CurrentField[i] =
                 Clamp(prevField[i] + SMul(in.tool.value, in.tool.strength), 0, Unit)
       /\ in.tool.value > 0 => CurrentField[i] >= prevField[i]
       /\ in.tool.value < 0 => CurrentField[i] <= prevField[i]

-----------------------------------------------------------------------------
\* The update pass fragment by fragment.  drawQuad runs UPDATE_SHADER once
\* for every cell of the destination, in an order the GPU chooses; each
\* fragment samples u_state (the source texture) and writes its own cell.

\* the number of steps run one after the other
MaxDraws == 2

\* a renderer with a kernel and a field, about to run step(in.mu, in.sigma, in.dt)
InitFrag ==
  /\ KernelIdle /\ AppIdle /\ PopIdle /\ ClampIdle
  /\ blend = [pc |-> "idle"] /\ PerfIdle /\ tour = <<>> /\ isDrawing = FALSE
  /\ pointerDown = FALSE
  /\ \E w \in GridSizes, params \in SetKernelInputs, name \in StateNames,
        in \in StepInputs :
       /\ gridWidth = w /\ gridHeight = 2
       /\ texA = StateData(name, w, 2) /\ texB = ZeroField(w, 2)
       /\ currentTex = "A"
       /\ kernelTex = generateKernel(params) /\ kernelRadius = params.radius
       /\ lastOp = [op |-> "setState", data |-> name]
       /\ srcTex = "none" /\ dstTex = "A"
       /\ prevField = ZeroField(w, 2)
       /\ nOps = 0
       /\ frag = [pc |-> "idle", in |-> in]

\* step up to drawQuad: source and destination are bound
DrawBegin ==
  /\ frag.pc = "idle"
  /\ nOps < MaxDraws
  /\ frag' = [pc |-> "draw", in |-> frag.in, src |-> Tex(StepSrc),
              todo |-> DOMAIN Tex(StepDst)]
  /\ lastOp' = [op |-> "step", in |-> frag.in]
  /\ srcTex' = StepSrc
  /\ dstTex' = StepDst
  /\ prevField' = CurrentField
  /\ nOps' = nOps + 1
  /\ UNCHANGED <<gridWidth, gridHeight, texA, texB, currentTex, kernelTex,
                 kernelRadius, kvars, avars, pvars, svars, blend, qvars, hvars>>

\* one fragment of the pass: cell i of the destination is computed from
\* the source texture as it is now
DrawFragment(i) ==
  /\ frag.pc = "draw"
  /\ i \in frag.todo
  /\ LET src == Tex(srcTex)
         val == UpdateCell(src[i],
                  Growth(Potential(src, kernelTex, kernelRadius,
                                   CellX(i, gridWidth), CellY(i, gridWidth),
                                   gridWidth, gridHeight),
                         frag.in.mu, frag.in.sigma),
                  frag.in.dt)
     IN WriteTex(dstTex, [Tex(dstTex) EXCEPT ![i] = val])
  /\ frag' = [frag EXCEPT !.todo = @ \ {i}]
  /\ UNCHANGED <<gridWidth, gridHeight, currentTex, kernelTex, kernelRadius,
                 lastOp, srcTex, dstTex, prevField, nOps, kvars, avars, pvars,
                 svars, blend, qvars, hvars>>

\* every fragment is drawn: the swap
DrawEnd ==
  /\ frag.pc = "draw"
  /\ frag.todo = {}
  /\ currentTex' = StepSwap
  /\ frag' = [pc |-> "idle", in |-> frag.in]
  /\ UNCHANGED <<gridWidth, gridHeight, texA, texB, kernelTex, kernelRadius,
                 lastOp, srcTex, dstTex, prevField, nOps, kvars, avars, pvars,
                 svars, blend, qvars, hvars>>

NextFrag ==
  \/ DrawBegin
  \/ \E i \in DOMAIN texA : DrawFragment(i)
  \/ DrawEnd

SpecFrag == InitFrag /\ [][NextFrag]_vars

\* the field the pass must produce from the source it started with
StepResult ==
  UpdateShader(frag.src, kernelTex, kernelRadius, gridWidth, gridHeight,
               frag.in.mu, frag.in.sigma, frag.in.dt)

\* C24: in whatever order the cells of a step are evaluated, the source
\* field is not changed by the pass and every cell drawn so far holds the
\* value determined by the source field the step started with, the kernel,
\* the growth parameters and dt; after the last cell the new field is that
\* function of the old one.
C24_StepOrderIndependent ==
  /\ frag.pc = "draw" =>
       /\ Tex(srcTex) = frag.src
       /\ \A i \in DOMAIN frag.src \ frag.todo : Tex(dstTex)[i] = StepResult[i]
  /\ (frag.pc = "idle" /\ lastOp.op = "step") =>
       CurrentField =
         UpdateShader(prevField, kernelTex, kernelRadius, gridWidth,
                      gridHeight, lastOp.in.mu, lastOp.in.sigma, lastOp.in.dt)

\* half way through a pass over a 4 x 2 field, cells 7, 2, 5 and 0 are drawn
\* and the others are not; one drawn cell differs from its source cell
C24_Witness ==
  /\ frag.pc = "draw" /\ gridWidth = 4
  /\ frag.todo = {1, 3, 4, 6}
  /\ \E i \in {0, 2, 5, 7} : Tex(dstTex)[i] # frag.src[i]


-----------------------------------------------------------------------------
\* The performance monitor (App.tsx 412-440)

\* the number of monitor checks in a behaviour
MaxChecks == 8

\* values the canvas reports through onFpsUpdate
FpsInputs == {0, 29, 30, 44, 45}

\* the counters without the way out of the degraded state
PerfNext_NoRecover(p, f) ==
  IF f > 0 /\ f < 30
    THEN [lowCount |-> p.lowCount + 1, highCount |-> 0,
          degraded |-> p.degraded \/ p.lowCount + 1 >= 3]
  ELSE IF f >= 45
    THEN [lowCount |-> 0, highCount |-> p.highCount + 1, degraded |-> p.degraded]
  ELSE [p EXCEPT !.lowCount = Max(0, p.lowCount - 1)]

\* perfRef.current after one run of the interval's callback with fps f
PerfNext(p, f) ==
  IF f > 0 /\ f < 30
    THEN [lowCount |-> p.lowCount + 1, highCount |-> 0,
          degraded |-> p.degraded \/ p.lowCount + 1 >= 3]
  ELSE IF f >= 45
    THEN [lowCount |-> 0, highCount |-> p.highCount + 1,
          degraded |-> p.degraded /\ ~(p.highCount + 1 >= 5)]
  ELSE [p EXCEPT !.lowCount = Max(0, p.lowCount - 1)]

\* onFpsUpdate = setFps, called by the frame loop about once a second; the
\* monitor effect is re-run and its interval starts anew
FpsUpdate(v) ==
  /\ animPending /\ ~contextLost /\ rendererRef
  /\ v # fps
  /\ fps' = v
  /\ UNCHANGED <<rvars, kvars, avars, pvars, svars, blend, frag, perfRef,
                 perfWarning, perfHist, hvars>>

\* the monitor interval's callback, which exists while isRunning
PerfCheck ==
  LET next == PerfNext(perfRef, fps)
      entered == next.degraded /\ ~perfRef.degraded
      left == perfRef.degraded /\ ~next.degraded
      low == fps > 0 /\ fps < 30
      high == fps >= 45
  IN /\ isRunning
     /\ perfHist.checks < MaxChecks
     /\ perfRef' = next
     /\ perfWarning' = IF entered THEN TRUE ELSE IF left THEN FALSE ELSE perfWarning
     /\ speed' = IF entered THEN MathMin(speed, Fin(One)) ELSE speed
     /\ perfHist' = [checks |-> perfHist.checks + 1,
                     lowRun |-> IF low THEN perfHist.lowRun + 1 ELSE 0,
                     highRun |-> IF high THEN perfHist.highRun + 1 ELSE 0]
     /\ lastAct' = [op |-> "perfCheck", entered |-> entered, left |-> left]
     /\ UNCHANGED <<species, growthMu, growthSigma, dt, brushSize, tool,
                    gridSize, isRunning, stepCount, mutation, mutationClosure,
                    cinematic, cinematicIdx, morphRef, rafMorph, effectPending,
                    growthRef, dtRef, rendererRef, contextLost, animPending,
                    stepRef, engineCall, morphCount, resizeCount, kernelId,
                    fieldBase, fieldUpdates, appOps>>
     /\ UNCHANGED <<rvars, kvars, pvars, svars, blend, frag, fps, hvars>>

NextPerf ==
  \/ \E v \in FpsInputs : FpsUpdate(v)
  \/ PerfCheck
  \/ \E v \in SpeedInputs : SetSpeed(v)
  \/ HandleToggleRun

SpecPerf == InitApp /\ [][NextPerf]_vars

-----------------------------------------------------------------------------
\* The cinematic tour

\* the tour's history with one more species, the latest
\* Len(SPECIES_IDS) + 1 kept
TourAppend(id) ==
  LET t == Append(tour, id)
  IN IF Len(t) > Len(SPECIES_IDS) + 1 THEN Tail(t) ELSE t

\* the cinematic button; switching the mode on places a species at once
TourToggle ==
  /\ CinematicToggled
  /\ tour' = IF ~cinematic THEN TourAppend(species') ELSE tour
  /\ UNCHANGED <<appOps, rvars, kvars, pvars, svars, blend, frag, qvars, isDrawing, pointerDown>>

\* the cinematic interval's callback
TourTick ==
  /\ CinematicPlaced
  /\ tour' = TourAppend(species')
  /\ UNCHANGED <<appOps, rvars, kvars, pvars, svars, blend, frag, qvars, isDrawing, pointerDown>>

\* the tour and the frame loop
NextCinematic ==
  \/ TourToggle
  \/ TourTick
  \/ Animate

SpecCinematic == InitApp /\ [][NextCinematic]_vars

\* setInterval runs its callback again and again while the mode is on
SpecCinematicFair == SpecCinematic /\ WF_vars(TourTick)

\* the position of a species in the catalog
CatalogIndex(id) == CHOOSE k \in 1..Len(SPECIES_IDS) : SPECIES_IDS[k] = id

\* the last handler placed a species of the tour
TourPlaced ==
  \/ lastAct.op = "cinematicTick"
  \/ lastAct.op = "cinematicToggle" /\ cinematic

\* C26: with cinematic mode on, successive ticks select the species in
\* catalog order, wrapping after the last, so that no species repeats before
\* all have been shown and every species is eventually shown; each tick
\* clears the field, applies the species' kernel, growth parameters and dt,
\* stamps its creature and resets the step counter.
C26_CinematicToursAllSpecies ==
  /\ [](/\ \A k \in 1..(Len(tour) - 1) :
             CatalogIndex(tour[k + 1]) = (CatalogIndex(tour[k]) % Len(SPECIES_IDS)) + 1
        /\ \A i, j \in 1..Len(tour) :
             (i < j /\ j - i < Len(SPECIES_IDS)) => tour[i] # tour[j]
        /\ TourPlaced =>
             /\ species = tour[Len(tour)]
             /\ AppGrowth = PresetValues(species)
             /\ Engine = PresetValues(species)
             /\ kernelId = species
             /\ fieldBase = Stamped(FieldCleared, species)
             /\ fieldUpdates = 0 /\ stepRef = 0 /\ stepCount = 0)
  /\ \A id \in DOMAIN SPECIES :
       cinematic ~> (~cinematic \/ (TourPlaced /\ species = id))

\* the tour has gone once round the catalog and placed orbium again
C26_Witness ==
  /\ TourPlaced /\ cinematic
  /\ Len(tour) = Len(SPECIES_IDS) + 1
  /\ tour[1] = "orbium" /\ tour[Len(tour)] = "orbium"
  /\ tour[Len(SPECIES_IDS)] = "coral"


-----------------------------------------------------------------------------
\* Presets applied while a species transition is in flight

\* the last handler applied a preset to the engine: the Petri dish
\* (genesis) or a placement of the cinematic tour
PresetApplied ==
  \/ lastAct.op = "petriDish"
  \/ TourPlaced

\* C27: when a Petri dish action or a cinematic tick has set the engine's
\* growth parameters and dt to a preset, a tick of a species transition that
\* was already in flight does not overwrite them.
C27_PresetNotOverwrittenByMorph ==
  [][(PresetApplied /\ Engine = PresetValues(species) /\ lastAct'.op = "animate")
       => Engine' = Engine]_vars


-----------------------------------------------------------------------------
\* The frame loop across a context loss

\* C28: when the GPU context has been lost and restored, the animation loop
\* is still scheduled: once the context is live again with a renderer, a
\* frame callback is requested, so that frames run without a user action.
C28_LoopScheduledAfterRestore ==
  (~contextLost /\ rendererRef) => animPending


-----------------------------------------------------------------------------
\* Engine parameters against the App state

\* no parameter update is on its way to the engine: the advanced-params
\* effect is not pending and no species transition is in flight
NoUpdatePending == ~effectPending /\ rafMorph = {}

\* C29: whenever no update is pending, the growth parameters and dt the
\* engine's step uses equal the mu, sigma and dt of the App state, also after
\* the renderer was re-created by a grid resize or a context restore.
C29_EngineEqualsAppState ==
  (NoUpdatePending /\ rendererRef) => Engine = AppGrowth


-----------------------------------------------------------------------------
\* Pointer editing (LeniaCanvas.tsx 277-308, 362-368)

\* the tools of the toolbar
Tools == {"draw", "erase", "stamp"}

\* a move that edits whatever the flag and the tool
MoveApplies_Always(drawing, t) == TRUE

\* handleMouseMove and handleTouchMove go on to applyBrush
MoveApplies(drawing, t) == drawing /\ t # "stamp"

\* nothing of the App or the canvas changes but the pointer flag
PointerOnly ==
  UNCHANGED <<species, growthMu, growthSigma, dt, brushSize, tool, gridSize,
              isRunning, speed, stepCount, mutation, mutationClosure,
              cinematic, cinematicIdx, morphRef, rafMorph, effectPending,
              growthRef, dtRef, rendererRef, contextLost, animPending,
              stepRef, morphCount, resizeCount, kernelId, fieldUpdates,
              fieldBase, engineCall>>

PointerOthers == UNCHANGED <<rvars, kvars, pvars, svars, blend, frag, qvars, tour>>

\* handleMouseDown (kind "mouse") and handleTouchStart (kind "touch")
HandlePointerDown(kind) ==
  /\ Counted
  /\ isDrawing' = TRUE
  /\ pointerDown' = TRUE
  /\ BrushApplied
  /\ lastAct' = [op |-> "down", kind |-> kind]
  /\ PointerOthers

\* handleMouseMove and handleTouchMove
HandlePointerMove(kind) ==
  /\ Counted
  /\ IF MoveApplies(isDrawing, tool) THEN BrushApplied ELSE PointerOnly
  /\ lastAct' = [op |-> "move", kind |-> kind]
  /\ UNCHANGED <<isDrawing, pointerDown>>
  /\ PointerOthers

\* handleMouseUp, bound to mouseup, mouseleave and touchend
HandlePointerUp(kind) ==
  /\ Counted
  /\ isDrawing' = FALSE
  /\ pointerDown' = FALSE
  /\ PointerOnly
  /\ lastAct' = [op |-> "up", kind |-> kind]
  /\ PointerOthers

\* onToolChange = setTool
SetTool(t) ==
  /\ Counted
  /\ tool' = t
  /\ lastAct' = [op |-> "setTool"]
  /\ UNCHANGED <<species, growthMu, growthSigma, dt, brushSize, gridSize,
                 isRunning, speed, stepCount, mutation, mutationClosure,
                 cinematic, cinematicIdx, morphRef, rafMorph, effectPending,
                 growthRef, dtRef, rendererRef, contextLost, animPending,
                 stepRef, morphCount, resizeCount, kernelId, fieldUpdates,
                 fieldBase, engineCall>>
  /\ UNCHANGED <<isDrawing, pointerDown>>
  /\ PointerOthers

NextPointer ==
  \/ \E kind \in {"mouse", "touch"} : HandlePointerDown(kind)
  \/ \E kind \in {"mouse", "touch"} : HandlePointerMove(kind)
  \/ \E kind \in {"mouseup", "mouseleave", "touchend"} : HandlePointerUp(kind)
  \/ \E t \in Tools : SetTool(t)

SpecPointer == InitApp /\ [][NextPointer]_vars

\* the handler that just ran made a brush or stamp call
EditApplied == fieldBase'.edits = fieldBase.edits + 1

\* C30: an edit is applied on every pointer-down, and on a pointer-move
\* exactly when the pointer is down (a down event with no up or leave event
\* since) and the tool is not the stamp; no other event edits the field.
C30_PointerStateMachine ==
  [][/\ lastAct'.op = "down" => EditApplied
     /\ lastAct'.op = "move" =>
          IF pointerDown /\ tool # "stamp" THEN EditApplied
          ELSE UNCHANGED <<fieldBase, engineCall>>
     /\ lastAct'.op \in {"up", "setTool"} => UNCHANGED <<fieldBase, engineCall>>
     /\ isDrawing' = pointerDown']_vars

\* the erase tool has edited on the press and again on the drag
C30_Witness ==
  /\ lastAct.op = "move" /\ pointerDown /\ tool = "erase"
  /\ fieldBase.edits = 2
  /\ engineCall.op = "brush" /\ engineCall.value = Fin(-One)
=============================================================================
